---- MODULE Spec2Model ----
(***************************************************************************)
(* A model of the rust-rocksdb binding layer (src/src/rocksdb.rs).        *)
(*                                                                         *)
(* The binding forwards every call to the storage engine through a C ABI.  *)
(* The engine is an external collaborator: its entry points               *)
(* (rocksdb_put, rocksdb_get, ...) are modelled as operators on the engine *)
(* state from the contract the specification states for them (sections 5, *)
(* 6 and the glossary).  The binding's own functions are the actions.     *)
(***************************************************************************)
EXTENDS Integers, Sequences, FiniteSets, TLC

VARIABLES
    phase,      \* "closed" (no DB yet), "open" (a live DB), "dropped"
    inner,      \* DB.inner: the engine's database handle (0 is the null pointer)
    batch,      \* the WriteBatch in use: None, or Some(its queued operations)
    bops,       \* history: the write calls made on that batch, in call order
    snap,       \* the Snapshot in use: None, or Some(the engine's version)
    snapExp,    \* history: `expect` at the moment that snapshot was taken
    iter,       \* the DBIterator in use: None, or Some([view, pos])
    scan,       \* history: what the iterator was made from, the seek that
                \* started the current scan, the moves since, the keys seen
    lastw,      \* history: the last successful write call, as the caller made it
    cfs,        \* DB.cfs: BTreeMap<String, DBCFHandle>, CF name -> handle
    held,       \* the caller's copies of CF handles, each with the DB it
                \* was taken from
    store,      \* engine: column family name -> (key -> optional value)
    disk,       \* engine: column family name -> the part of it that has
                \* been flushed to on-disk files (key -> optional value)
    handles,    \* engine: live CF handle -> the column family it refers to
    edbs,       \* engine: the database handles that are open
    nextH,      \* engine: the next handle it allocates
    openCall,   \* history: the arguments of the last rocksdb_open_column_families
    relLog,     \* history: the engine release calls made by the last DB drop
    expect,     \* history: what the caller's successful writes add up to
    nwrites,    \* number of write calls made so far, on the DB or on a batch
    calls,      \* thread -> the call it has in flight on the shared DB
    direct,     \* the first of two databases opened alike, on which the
                \* calls made on the batch are made directly: how many
                \* of them were made, and what it held when it was read
    borrows,    \* the references to a DB that live iterators and snapshots
                \* hold (DBIterator.db, Snapshot.db)
    ret         \* the last call of the binding and what it returned

vars == <<phase, inner, cfs, held, store, disk, handles, edbs, nextH, openCall,
          relLog,
          batch, bops, snap, snapExp, iter, scan, lastw, expect, nwrites, calls,
          direct, borrows, ret>>

----------------------------------------------------------------------------
(* Bounds of the model. *)

MaxWrites == 3
MaxHandles == 6
MaxNames == 2
MaxErrWrites == 1
MaxKeyLen == 2
MaxThreads == 2

(* The threads that share one DB (DB is Send and Sync); a thread with no  *)
(* call in flight is idle. *)
Threads == 1..MaxThreads
Idle == [st |-> "idle"]

(* Keys and values are byte strings.  The key set has a key that is a      *)
(* prefix of another, so that byte order and length order differ.  The    *)
(* write calls of the model draw their keys from WriteKeys, the calls on  *)
(* a write batch from BatchKeys.                                          *)
Keys == {<<1>>, <<1, 2>>, <<2>>}
WriteKeys == {<<1>>, <<1, 2>>}
BatchKeys == {<<1, 2>>}
Values == {<<7>>, <<8, 9>>}

(* An optional value: <<>> is None (a null pointer), <<v>> is Some(v). *)
None == <<>>
Some(v) == <<v>>
OptValues == {None} \cup {Some(v) : v \in Values}

(* The error out-pointer after an engine call: "" is the null pointer. *)
NoErr == ""
EngineErrs == {NoErr, "IO error"}

Null == 0

----------------------------------------------------------------------------
(* Byte order on byte strings (the engine's default comparator, and the    *)
(* order of Rust's slice comparison). *)

RECURSIVE LexLess(_, _)
LexLess(a, b) ==
    IF b = <<>> THEN FALSE
    ELSE IF a = <<>> THEN TRUE
    ELSE IF Head(a) # Head(b) THEN Head(a) < Head(b)
    ELSE LexLess(Tail(a), Tail(b))

LexLeq(a, b) == a = b \/ LexLess(a, b)

----------------------------------------------------------------------------
(* const DEFAULT_COLUMN_FAMILY *)
DEFAULT_COLUMN_FAMILY == "default"

EmptyCF == [k \in Keys |-> None]

(* Result<T, String>: Ok(x) and Err(message). Unit is the empty tuple. *)
Ok(x) == [ok |-> TRUE, val |-> x]
Err(m) == [ok |-> FALSE, msg |-> m]
Unit == <<>>

(* key.as_ptr() with key.len(): the bytes the engine reads from a pointer *)
(* and a length. *)
Slice(ptr, len) == SubSeq(ptr, 1, len)

(* error_message(err): the engine's message, copied into a String. *)
error_message(err) == err

----------------------------------------------------------------------------
(* The engine's entry points, as functions of the engine state.           *)
(* A call that reports an error changes nothing.                          *)

(* The merge operator the database was opened with: an associative        *)
(* function of the existing value and the operand (here: the larger one   *)
(* in byte order). *)
MergeOperator(old, operand) ==
    IF old = None THEN Some(operand)
    ELSE IF LexLess(old[1], operand) THEN Some(operand) ELSE old

rocksdb_put_cf(st, cf, key, value, err) ==
    IF err # NoErr THEN st ELSE [st EXCEPT ![handles[cf]][key] = Some(value)]

rocksdb_delete_cf(st, cf, key, err) ==
    IF err # NoErr THEN st ELSE [st EXCEPT ![handles[cf]][key] = None]

rocksdb_merge_cf(st, cf, key, value, err) ==
    IF err # NoErr THEN st
    ELSE [st EXCEPT ![handles[cf]][key] = MergeOperator(@, value)]

(* The calls without a CF argument act on the engine's default column     *)
(* family, whatever the binding's CF map holds. *)
rocksdb_put(st, key, value, err) ==
    IF err # NoErr THEN st
    ELSE [st EXCEPT ![DEFAULT_COLUMN_FAMILY][key] = Some(value)]

rocksdb_delete(st, key, err) ==
    IF err # NoErr THEN st
    ELSE [st EXCEPT ![DEFAULT_COLUMN_FAMILY][key] = None]

rocksdb_merge(st, key, value, err) ==
    IF err # NoErr THEN st
    ELSE [st EXCEPT ![DEFAULT_COLUMN_FAMILY][key] = MergeOperator(@, value)]

(* The version a read sees: the live one, or the snapshot the read        *)
(* options are bound to. *)
ReadView(readopts) ==
    IF readopts.snapshot = None THEN store ELSE readopts.snapshot[1]

(* rocksdb_get: a malloc'd copy of the value, its length stored through   *)
(* the length pointer; the null pointer when the key is absent or the     *)
(* call failed. *)
rocksdb_get(readopts, key, err) ==
    IF err # NoErr THEN None ELSE ReadView(readopts)[DEFAULT_COLUMN_FAMILY][key]

rocksdb_get_cf(readopts, cf, key, err) ==
    IF err # NoErr THEN None ELSE ReadView(readopts)[handles[cf]][key]

----------------------------------------------------------------------------
(* ReadOptions::new(): p is what rocksdb_readoptions_create returned. *)
ReadOptions_new(p) == [inner |-> p, snapshot |-> None]

(* DBVector::from_c and Deref for DBVector: the buffer and the bytes the  *)
(* caller sees through it. *)
DBVector_from_c(val, val_len) == [base |-> val, len |-> val_len]
DBVector_deref(vec) == Slice(vec.base, vec.len)

(* get_opt and get_cf_opt declare `let val_len: size_t = 0` (immutable)    *)
(* and hand `&val_len as *const size_t` to the engine, which stores the   *)
(* value's length through it.  Writing through a pointer derived from a    *)
(* shared reference to an immutable local is undefined behaviour: the      *)
(* later read of val_len yields what the engine stored or the initialiser *)
(* the compiler is entitled to assume. *)
ValLenRead(stored) == {stored, 0}

ReadOptsNullMsg == "Unable to create rocksdb read options."

----------------------------------------------------------------------------
(* What the caller's successful writes add up to, per column family name. *)
(* An operation is [kind, cf, key, value]; cf is the CF's name.            *)

Apply(exp, o) ==
    CASE o.kind = "put" -> [exp EXCEPT ![o.cf][o.key] = Some(o.value)]
      [] o.kind = "delete" -> [exp EXCEPT ![o.cf][o.key] = None]
      [] o.kind = "merge" ->
            [exp EXCEPT ![o.cf][o.key] = MergeOperator(@, o.value)]

Op(kind, cf, key, value) ==
    [kind |-> kind, cf |-> cf, key |-> key, value |-> value]

(* The result of a write call that is Ok whatever the engine reported. *)
WriteResult_swallow(err) == Ok(Unit)

(* The result of a write call: Err with the engine's message when the     *)
(* error out-pointer is set, Ok(()) otherwise. *)
WriteResult(err) == IF err # NoErr THEN Err(error_message(err)) ELSE Ok(Unit)

WriteRet(op, err) == [op |-> op, env |-> err, res |-> WriteResult(err)]

----------------------------------------------------------------------------
(* DB: the point writes.  Each passes the key's and the value's pointer   *)
(* and length to the engine and turns the error out-pointer into the      *)
(* result. *)

put_opt(key, value, err) ==
    /\ store' = rocksdb_put(store, Slice(key, Len(key)),
                            Slice(value, Len(value)), err)
    /\ ret' = WriteRet("put", err)

(* put_cf_opt that leaves the column family out of the engine call. *)
put_cf_opt_default(cf, key, value, err) ==
    /\ store' = rocksdb_put(store, Slice(key, Len(key)),
                            Slice(value, Len(value)), err)
    /\ ret' = WriteRet("put_cf", err)

put_cf_opt(cf, key, value, err) ==
    /\ store' = rocksdb_put_cf(store, cf, Slice(key, Len(key)),
                               Slice(value, Len(value)), err)
    /\ ret' = WriteRet("put_cf", err)

merge_opt(key, value, err) ==
    /\ store' = rocksdb_merge(store, Slice(key, Len(key)),
                              Slice(value, Len(value)), err)
    /\ ret' = WriteRet("merge", err)

merge_cf_opt(cf, key, value, err) ==
    /\ store' = rocksdb_merge_cf(store, cf, Slice(key, Len(key)),
                                 Slice(value, Len(value)), err)
    /\ ret' = WriteRet("merge_cf", err)

(* delete_opt with the key's length one byte short. *)
delete_opt_short(key, err) ==
    /\ store' = rocksdb_delete(store, Slice(key, Len(key) - 1), err)
    /\ ret' = WriteRet("delete", err)

delete_opt(key, err) ==
    /\ store' = rocksdb_delete(store, Slice(key, Len(key)), err)
    /\ ret' = WriteRet("delete", err)

delete_cf_opt(cf, key, err) ==
    /\ store' = rocksdb_delete_cf(store, cf, Slice(key, Len(key)), err)
    /\ ret' = WriteRet("delete_cf", err)

----------------------------------------------------------------------------
(* DB: the point reads.  A read changes nothing; get_opt and get_cf_opt   *)
(* are the set of results the call can return in the current state.       *)

(* The tail of get_opt and get_cf_opt: the error out-pointer first, then  *)
(* the value pointer. *)
GetResults(val, err) ==
    IF err # NoErr THEN {Err(error_message(err))}
    ELSE IF val = None THEN {Ok(None)}
    ELSE {Ok(Some(DBVector_from_c(val[1], val_len))) :
              val_len \in ValLenRead(Len(val[1]))}

(* get_opt and get_cf_opt from the engine's outputs on: val is the value *)
(* pointer the engine returned, err the error out-pointer. *)
get_opt_from(readopts, val, err) ==
    IF readopts.inner = Null THEN {Err(ReadOptsNullMsg)}
    ELSE GetResults(val, err)

get_cf_opt_from(readopts, val, err) ==
    IF readopts.inner = Null THEN {Err(ReadOptsNullMsg)}
    ELSE GetResults(val, err)

get_opt(key, readopts, err) ==
    get_opt_from(readopts, rocksdb_get(readopts, Slice(key, Len(key)), err),
                 err)

get_cf_opt(cf, key, readopts, err) ==
    get_cf_opt_from(readopts,
                    rocksdb_get_cf(readopts, cf, Slice(key, Len(key)), err),
                    err)

(* DB::get and DB::get_cf: p is what rocksdb_readoptions_create returned. *)
DB_get(key, p, err) == get_opt(key, ReadOptions_new(p), err)
DB_get_cf(cf, key, p, err) == get_cf_opt(cf, key, ReadOptions_new(p), err)

----------------------------------------------------------------------------
(* WriteBatch.  The engine keeps the queued operations in call order;     *)
(* an operation is [kind, cf, key, value] with cf a CF handle, or Null    *)
(* for the calls without a CF argument. *)

rocksdb_writebatch_create == <<>>
rocksdb_writebatch_count(rep) == Len(rep)
rocksdb_writebatch_put(rep, key, value) ==
    Append(rep, Op("put", Null, key, value))
rocksdb_writebatch_put_cf(rep, cf, key, value) ==
    Append(rep, Op("put", cf, key, value))
rocksdb_writebatch_merge(rep, key, value) ==
    Append(rep, Op("merge", Null, key, value))
rocksdb_writebatch_merge_cf(rep, cf, key, value) ==
    Append(rep, Op("merge", cf, key, value))
rocksdb_writebatch_delete(rep, key) ==
    Append(rep, Op("delete", Null, key, <<>>))
rocksdb_writebatch_delete_cf(rep, cf, key) ==
    Append(rep, Op("delete", cf, key, <<>>))

(* One queued operation applied to the engine state. *)
EngineApply(st, o) ==
    CASE o.kind = "put" /\ o.cf = Null -> rocksdb_put(st, o.key, o.value, NoErr)
      [] o.kind = "put" /\ o.cf # Null ->
            rocksdb_put_cf(st, o.cf, o.key, o.value, NoErr)
      [] o.kind = "merge" /\ o.cf = Null ->
            rocksdb_merge(st, o.key, o.value, NoErr)
      [] o.kind = "merge" /\ o.cf # Null ->
            rocksdb_merge_cf(st, o.cf, o.key, o.value, NoErr)
      [] o.kind = "delete" /\ o.cf = Null -> rocksdb_delete(st, o.key, NoErr)
      [] o.kind = "delete" /\ o.cf # Null ->
            rocksdb_delete_cf(st, o.cf, o.key, NoErr)

(* rocksdb_write: the whole batch in queue order, or nothing on an error. *)
RECURSIVE EngineApplyAll(_, _)
EngineApplyAll(st, rep) ==
    IF rep = <<>> THEN st
    ELSE EngineApplyAll(EngineApply(st, Head(rep)), Tail(rep))

rocksdb_write(st, rep, err) ==
    IF err # NoErr THEN st ELSE EngineApplyAll(st, rep)

(* WriteBatch::new / Default *)
WriteBatch_new == batch' = Some(rocksdb_writebatch_create)

(* WriteBatch::count and is_empty *)
WriteBatch_count(b) == rocksdb_writebatch_count(b[1])
WriteBatch_is_empty(b) == WriteBatch_count(b) = 0

BatchRet(op) == [op |-> op, res |-> Ok(Unit)]

(* impl Writable for WriteBatch: queue the operation, return Ok(()). *)
WriteBatch_put(key, value) ==
    /\ batch' = Some(rocksdb_writebatch_put(batch[1], Slice(key, Len(key)),
                                            Slice(value, Len(value))))
    /\ ret' = BatchRet("batch_put")

(* WriteBatch::put_cf that queues the put without the column family. *)
WriteBatch_put_cf_default(cf, key, value) ==
    /\ batch' = Some(rocksdb_writebatch_put(batch[1], Slice(key, Len(key)),
                                            Slice(value, Len(value))))
    /\ ret' = BatchRet("batch_put")

WriteBatch_put_cf(cf, key, value) ==
    /\ batch' = Some(rocksdb_writebatch_put_cf(batch[1], cf,
                         Slice(key, Len(key)), Slice(value, Len(value))))
    /\ ret' = BatchRet("batch_put")

WriteBatch_merge(key, value) ==
    /\ batch' = Some(rocksdb_writebatch_merge(batch[1], Slice(key, Len(key)),
                                              Slice(value, Len(value))))
    /\ ret' = BatchRet("batch_merge")

WriteBatch_merge_cf(cf, key, value) ==
    /\ batch' = Some(rocksdb_writebatch_merge_cf(batch[1], cf,
                         Slice(key, Len(key)), Slice(value, Len(value))))
    /\ ret' = BatchRet("batch_merge")

(* WriteBatch::delete that queues nothing. *)
WriteBatch_delete_dropped(key) ==
    /\ batch' = batch
    /\ ret' = BatchRet("batch_delete")

WriteBatch_delete(key) ==
    /\ batch' = Some(rocksdb_writebatch_delete(batch[1], Slice(key, Len(key))))
    /\ ret' = BatchRet("batch_delete")

(* WriteBatch::delete_cf that queues the delete without the column        *)
(* family. *)
WriteBatch_delete_cf_default(cf, key) ==
    /\ batch' = Some(rocksdb_writebatch_delete(batch[1], Slice(key, Len(key))))
    /\ ret' = BatchRet("batch_delete")

WriteBatch_delete_cf(cf, key) ==
    /\ batch' = Some(rocksdb_writebatch_delete_cf(batch[1], cf,
                                                  Slice(key, Len(key))))
    /\ ret' = BatchRet("batch_delete")

(* impl Drop for WriteBatch *)
WriteBatch_drop == batch' = None

(* DB::write_opt that hands the batch back when the engine reports an     *)
(* error. *)
write_opt_keeps(b, err) ==
    /\ store' = rocksdb_write(store, b[1], err)
    /\ ret' = WriteRet("write", err)
    /\ IF err # NoErr THEN batch' = batch ELSE WriteBatch_drop

(* DB::write_opt: commits the batch; the batch, passed by value, is       *)
(* dropped when the call returns. *)
write_opt(b, err) ==
    /\ store' = rocksdb_write(store, b[1], err)
    /\ ret' = WriteRet("write", err)
    /\ WriteBatch_drop

----------------------------------------------------------------------------
(* Range::new: assert!(start_key <= end_key), the order of byte slices,   *)
(* then the Range of the two keys.  The fields are private and the struct *)
(* is built nowhere else. *)

(* Range::new that asserts start_key < end_key. *)
Range_new_strict(start_key, end_key) ==
    IF ~LexLess(start_key, end_key) THEN [panic |-> TRUE]
    ELSE [panic |-> FALSE, start_key |-> start_key, end_key |-> end_key]

Range_new(start_key, end_key) ==
    IF ~LexLeq(start_key, end_key) THEN [panic |-> TRUE]
    ELSE [panic |-> FALSE, start_key |-> start_key, end_key |-> end_key]

----------------------------------------------------------------------------
(* Maintenance calls.  The engine's side, from its contract: destroy_db   *)
(* removes the database of the path, repair_db and flush leave what reads *)
(* see as it is, flush moves the write buffer of the default column       *)
(* family into on-disk files (when it is not told to wait, the files may  *)
(* be written after the call returned), delete_file_in_range drops whole  *)
(* files inside the range, so some of the range's flushed keys (gone) are *)
(* lost, to reads where the value read was the file's, and every other    *)
(* key stays.  On an error the engine changes nothing. *)

rocksdb_destroy_db(st, err) == IF err = NoErr THEN <<>> ELSE st
rocksdb_repair_db(st, err) == st
rocksdb_flush(st, wait, err) == st

(* The files once the write buffer of the column family is flushed. *)
FlushedCf(dk, st, name) ==
    IF name \in DOMAIN st /\ name \in DOMAIN dk
    THEN [dk EXCEPT ![name] = st[name]] ELSE dk

rocksdb_flush_files(dk, st, wait, err) ==
    IF err # NoErr THEN {dk}
    ELSE IF wait THEN {FlushedCf(dk, st, DEFAULT_COLUMN_FAMILY)}
    ELSE {dk, FlushedCf(dk, st, DEFAULT_COLUMN_FAMILY)}

InRange(k, start_key, end_key) == LexLeq(start_key, k) /\ LexLess(k, end_key)

FilesDeleted(dk, name, start_key, end_key, gone, err) ==
    IF err # NoErr THEN dk
    ELSE [dk EXCEPT ![name] =
             [k \in Keys |->
                 IF k \in gone /\ InRange(k, start_key, end_key)
                 THEN None ELSE @[k]]]

rocksdb_delete_file_in_range_cf(st, cf, start_key, end_key, gone, err) ==
    IF err # NoErr THEN st
    ELSE [st EXCEPT ![handles[cf]] =
             [k \in Keys |->
                 IF /\ k \in gone /\ InRange(k, start_key, end_key)
                    /\ @[k] = disk[handles[cf]][k]
                 THEN None ELSE @[k]]]

rocksdb_delete_file_in_range(st, start_key, end_key, gone, err) ==
    IF err # NoErr THEN st
    ELSE [st EXCEPT ![DEFAULT_COLUMN_FAMILY] =
             [k \in Keys |->
                 IF /\ k \in gone /\ InRange(k, start_key, end_key)
                    /\ @[k] = disk[DEFAULT_COLUMN_FAMILY][k]
                 THEN None ELSE @[k]]]

MaintRet(op, err, res) == [op |-> op, env |-> err, res |-> res]

(* DB::destroy with the error out-pointer left unread. *)
destroy_unchecked(opts, err) ==
    /\ store' = rocksdb_destroy_db(store, err)
    /\ disk' = rocksdb_destroy_db(disk, err)
    /\ ret' = MaintRet("destroy", err, Ok(Unit))

(* DB::destroy and DB::repair *)
destroy(opts, err) ==
    /\ store' = rocksdb_destroy_db(store, err)
    /\ disk' = rocksdb_destroy_db(disk, err)
    /\ IF err # NoErr
       THEN ret' = MaintRet("destroy", err, Err(error_message(err)))
       ELSE ret' = MaintRet("destroy", err, Ok(Unit))

repair(opts, err) ==
    /\ store' = rocksdb_repair_db(store, err)
    /\ disk' = rocksdb_repair_db(disk, err)
    /\ IF err # NoErr
       THEN ret' = MaintRet("repair", err, Err(error_message(err)))
       ELSE ret' = MaintRet("repair", err, Ok(Unit))

(* The calls DB::flush makes, in order; opts is the handle that           *)
(* rocksdb_flushoptions_create returned, and "err.is_null" is the test of *)
(* the error out-pointer. *)
FlushOpts == [handle |-> "flushoptions"]
FlushCall(fn) == [fn |-> fn, opts |-> FlushOpts]
flush_calls(sync) ==
    <<FlushCall("rocksdb_flushoptions_create"),
      [fn |-> "rocksdb_flushoptions_set_wait", opts |-> FlushOpts,
       wait |-> sync],
      FlushCall("rocksdb_flush"),
      FlushCall("rocksdb_flushoptions_destroy"),
      [fn |-> "err.is_null"]>>

FlushRet(sync, err, res, made) ==
    [op |-> "flush", sync |-> sync, env |-> err, res |-> res, ffi |-> made]

(* DB::flush that tests the error out-pointer before it destroys the      *)
(* flush options, and returns Err without destroying them. *)
flush_early_return(sync, err) ==
    /\ store' = rocksdb_flush(store, sync, err)
    /\ disk' \in rocksdb_flush_files(disk, store, sync, err)
    /\ IF err # NoErr
       THEN ret' = FlushRet(sync, err, Err(error_message(err)),
                            SubSeq(flush_calls(sync), 1, 3)
                                \o <<[fn |-> "err.is_null"]>>)
       ELSE ret' = FlushRet(sync, err, Ok(Unit), flush_calls(sync))

(* DB::flush: the flush options are created, used and destroyed in the    *)
(* call, and the error out-pointer is read after that. *)
flush(sync, err) ==
    /\ store' = rocksdb_flush(store, sync, err)
    /\ disk' \in rocksdb_flush_files(disk, store, sync, err)
    /\ IF err # NoErr
       THEN ret' = FlushRet(sync, err, Err(error_message(err)),
                            flush_calls(sync))
       ELSE ret' = FlushRet(sync, err, Ok(Unit), flush_calls(sync))

(* DB::delete_file_in_range and DB::delete_file_in_range_cf *)
delete_file_in_range(start_key, end_key, gone, err) ==
    /\ store' = rocksdb_delete_file_in_range(store,
                     Slice(start_key, Len(start_key)),
                     Slice(end_key, Len(end_key)), gone, err)
    /\ disk' = FilesDeleted(disk, DEFAULT_COLUMN_FAMILY,
                     Slice(start_key, Len(start_key)),
                     Slice(end_key, Len(end_key)), gone, err)
    /\ IF err # NoErr
       THEN ret' = MaintRet("delete_file_in_range", err,
                            Err(error_message(err)))
       ELSE ret' = MaintRet("delete_file_in_range", err, Ok(Unit))

delete_file_in_range_cf(cf, start_key, end_key, gone, err) ==
    /\ store' = rocksdb_delete_file_in_range_cf(store, cf,
                     Slice(start_key, Len(start_key)),
                     Slice(end_key, Len(end_key)), gone, err)
    /\ disk' = FilesDeleted(disk, handles[cf],
                     Slice(start_key, Len(start_key)),
                     Slice(end_key, Len(end_key)), gone, err)
    /\ IF err # NoErr
       THEN ret' = MaintRet("delete_file_in_range_cf", err,
                            Err(error_message(err)))
       ELSE ret' = MaintRet("delete_file_in_range_cf", err, Ok(Unit))

----------------------------------------------------------------------------
(* Snapshots.  rocksdb_create_snapshot pins the current version of every  *)
(* column family; reads bound to it see that version. *)

rocksdb_create_snapshot == store

(* ReadOptions::set_snapshot *)
set_snapshot(readopts, snapshot) ==
    [readopts EXCEPT !.snapshot = Some(snapshot)]

(* DB::unsafe_snap, Snapshot::new and DB::snapshot *)
unsafe_snap == rocksdb_create_snapshot
Snapshot_new == snap' = Some(unsafe_snap)

(* impl Drop for Snapshot: DB::release_snap *)
Snapshot_drop == snap' = None

(* Snapshot::get and Snapshot::get_cf: read options bound to the snapshot, *)
(* then the DB's get_opt / get_cf_opt. *)
Snapshot_get(key, err) ==
    get_opt(key, set_snapshot(ReadOptions_new(1), snap[1]), err)

Snapshot_get_cf(cf, key, err) ==
    get_cf_opt(cf, key, set_snapshot(ReadOptions_new(1), snap[1]), err)

----------------------------------------------------------------------------
(* Iterators.  An engine iterator walks the version of one column family  *)
(* that was current when it was created (or the snapshot's); pos is the   *)
(* key it stands on, None when it is not valid. *)

KeysIn(view) == {k \in Keys : view[k] # None}

Smallest(S) == CHOOSE k \in S : \A j \in S : LexLeq(k, j)
Largest(S) == CHOOSE k \in S : \A j \in S : LexLeq(j, k)
OptSmallest(S) == IF S = {} THEN None ELSE Some(Smallest(S))
OptLargest(S) == IF S = {} THEN None ELSE Some(Largest(S))

rocksdb_create_iterator(readopts) ==
    [view |-> ReadView(readopts)[DEFAULT_COLUMN_FAMILY], pos |-> None]

rocksdb_create_iterator_cf(readopts, cf) ==
    [view |-> ReadView(readopts)[handles[cf]], pos |-> None]

rocksdb_iter_seek_to_first(it) ==
    [it EXCEPT !.pos = OptSmallest(KeysIn(it.view))]

rocksdb_iter_seek_to_last(it) ==
    [it EXCEPT !.pos = OptLargest(KeysIn(it.view))]

rocksdb_iter_seek(it, key) ==
    [it EXCEPT !.pos = OptSmallest({k \in KeysIn(it.view) : LexLeq(key, k)})]

rocksdb_iter_next(it) ==
    IF it.pos = None THEN it
    ELSE [it EXCEPT !.pos =
             OptSmallest({k \in KeysIn(it.view) : LexLess(it.pos[1], k)})]

rocksdb_iter_prev(it) ==
    IF it.pos = None THEN it
    ELSE [it EXCEPT !.pos =
             OptLargest({k \in KeysIn(it.view) : LexLess(k, it.pos[1])})]

rocksdb_iter_valid(it) == it.pos # None
rocksdb_iter_key(it) == it.pos[1]
rocksdb_iter_value(it) == it.view[it.pos[1]][1]

(* SeekKey *)
SeekStart == [tag |-> "Start", key |-> <<>>]
SeekEnd == [tag |-> "End", key |-> <<>>]
SeekKeyOf(k) == [tag |-> "Key", key |-> k]
SeekKeys == {SeekStart, SeekEnd} \cup {SeekKeyOf(k) : k \in Keys}

(* DBIterator::new and DBIterator::new_cf *)
DBIterator_new(readopts) == iter' = Some(rocksdb_create_iterator(readopts))
DBIterator_new_cf(cf, readopts) ==
    iter' = Some(rocksdb_create_iterator_cf(readopts, cf))

(* DB::iter_opt, DB::iter, DB::iter_cf *)
iter_opt(opt) == DBIterator_new(opt)
DB_iter == iter_opt(ReadOptions_new(1))
iter_cf(cf_handle) == DBIterator_new_cf(cf_handle, ReadOptions_new(1))

(* Snapshot::iter_opt and Snapshot::iter *)
Snapshot_iter_opt(opt) == DBIterator_new(set_snapshot(opt, snap[1]))
Snapshot_iter == Snapshot_iter_opt(ReadOptions_new(1))

(* DBIterator::valid, key, value, kv *)
valid(it) == rocksdb_iter_valid(it)
kv(it) ==
    IF valid(it) THEN Some(<<rocksdb_iter_key(it), rocksdb_iter_value(it)>>)
    ELSE None

(* DBIterator::key and DBIterator::value: assert!(self.valid()), then the *)
(* engine's read of the current entry.  A failed assertion unwinds before *)
(* the engine is asked; the iterator is borrowed, not consumed. *)
AssertFailed == [panic |-> TRUE, engine_read |-> FALSE]
SliceOf(bytes) == [panic |-> FALSE, engine_read |-> TRUE, bytes |-> bytes]

(* What the engine hands back for an iterator that stands on no entry:    *)
(* bytes that are no entry of the database. *)
Garbage == <<0>>

(* key() without the assertion. *)
DBIterator_key_unguarded(it) ==
    SliceOf(IF rocksdb_iter_valid(it) THEN rocksdb_iter_key(it) ELSE Garbage)

DBIterator_key(it) ==
    IF ~valid(it) THEN AssertFailed
    ELSE SliceOf(rocksdb_iter_key(it))

DBIterator_value(it) ==
    IF ~valid(it) THEN AssertFailed
    ELSE SliceOf(rocksdb_iter_value(it))

(* seek() with the engine calls of Start and End exchanged. *)
seek_swapped(key) ==
    /\ iter' = Some(CASE key.tag = "Start" -> rocksdb_iter_seek_to_last(iter[1])
                   [] key.tag = "End" -> rocksdb_iter_seek_to_first(iter[1])
                   [] key.tag = "Key" ->
                         rocksdb_iter_seek(iter[1],
                                           Slice(key.key, Len(key.key))))
    /\ ret' = [op |-> "seek", key |-> key, res |-> valid(iter'[1])]

(* DBIterator::seek, next, prev: the engine move, then valid(). *)
seek(key) ==
    /\ iter' = Some(CASE key.tag = "Start" -> rocksdb_iter_seek_to_first(iter[1])
                   [] key.tag = "End" -> rocksdb_iter_seek_to_last(iter[1])
                   [] key.tag = "Key" ->
                         rocksdb_iter_seek(iter[1],
                                           Slice(key.key, Len(key.key))))
    /\ ret' = [op |-> "seek", key |-> key, res |-> valid(iter'[1])]

(* next() that moves the engine's iterator backwards. *)
next_backwards ==
    /\ iter' = Some(rocksdb_iter_prev(iter[1]))
    /\ ret' = [op |-> "next", res |-> valid(iter'[1])]

(* next() that returns the validity from before the move. *)
next_stale ==
    /\ iter' = Some(rocksdb_iter_next(iter[1]))
    /\ ret' = [op |-> "next", res |-> valid(iter[1])]

next ==
    /\ iter' = Some(rocksdb_iter_next(iter[1]))
    /\ ret' = [op |-> "next", res |-> valid(iter'[1])]

prev ==
    /\ iter' = Some(rocksdb_iter_prev(iter[1]))
    /\ ret' = [op |-> "prev", res |-> valid(iter'[1])]

(* impl Iterator for &mut DBIterator, with no move after the pair. *)
Iterator_next_stay ==
    /\ iter' = iter
    /\ ret' = [op |-> "pull", res |-> kv(iter[1])]

(* impl Iterator for &mut DBIterator: fn next.  The pair is taken by     *)
(* kv(), which copies key and value (to_vec); DBIterator::next, the       *)
(* engine move, is called when there is a pair; the pair is returned. *)
Iterator_next ==
    LET pair == kv(iter[1]) IN
    /\ iter' = IF pair # None THEN Some(rocksdb_iter_next(iter[1])) ELSE iter
    /\ ret' = [op |-> "pull", res |-> pair]

(* impl Drop for DBIterator *)
DBIterator_drop == iter' = None

----------------------------------------------------------------------------
(* Column family names, with their bytes: a BTreeMap<String, _> keeps its *)
(* keys in byte order. *)

Names == {"default", "cf1"}
NameBytes(n) ==
    CASE n = "default" -> <<100, 101, 102, 97, 117, 108, 116>>
      [] n = "cf1" -> <<99, 102, 49>>

RECURSIVE SortedNames(_)
SortedNames(S) ==
    IF S = {} THEN <<>>
    ELSE LET m == CHOOSE n \in S :
                      \A j \in S : LexLeq(NameBytes(n), NameBytes(j))
         IN <<m>> \o SortedNames(S \ {m})

(* BTreeMap::values(): the values in key order. *)
MapValues(m) == [i \in 1..Cardinality(DOMAIN m) |-> m[SortedNames(DOMAIN m)[i]]]

(* BTreeMap::insert *)
MapInsert(m, k, v) == [n \in DOMAIN m \cup {k} |-> IF n = k THEN v ELSE m[n]]

Contains(seq, x) == \E i \in 1..Len(seq) : seq[i] = x

NoDuplicates(seq) == \A i, j \in 1..Len(seq) : seq[i] = seq[j] => i = j

(* Option handles: the database-level options and two others. *)
DbOpts == "opts"
CfOptions == {"opts", "cf_opts"}

BoundedSeqs(S, n) == UNION {[1..m -> S] : m \in 0..n}

----------------------------------------------------------------------------
(* DB::open_cf.  path_ok: the path holds no NUL byte; dir_ok:              *)
(* create_dir_all succeeded; err: the engine's error out-pointer.          *)

(* rocksdb_open_column_families: on success a database handle and one CF  *)
(* handle per name, stored into the caller's array; on an error the null  *)
(* database handle and the array left as it was. *)
rocksdb_open_column_families(names, err) ==
    IF err # NoErr
    THEN [db |-> Null, cfhandles |-> [i \in 1..Len(names) |-> Null]]
    ELSE [db |-> nextH, cfhandles |-> [i \in 1..Len(names) |-> nextH + i]]

(* open_cf builds `cfhandles` as an immutable Vec of null handles and     *)
(* passes cfhandles.as_ptr() for the engine to fill.  Writing through     *)
(* that pointer is undefined behaviour: the later read of the Vec yields  *)
(* the handles the engine stored or the nulls the Vec was built with.     *)
HandlesRead(stored) == {stored, [i \in DOMAIN stored |-> Null]}

PathMsg == "Failed to convert path to CString when opening rocksdb"
DirMsg == "Failed to create rocksdb directory"
LenMsg == "cfs.len() and cf_opts.len() not match."
NullCfMsg == "Received null column family handle from DB."
NullDbMsg == "Could not initialize database."

(* Lines 367-370: the CF map built from the names zipped with the handles. *)
RECURSIVE BuildCfMap(_, _, _)
BuildCfMap(names, hs, i) ==
    IF i = 0 THEN <<>>
    ELSE MapInsert(BuildCfMap(names, hs, i - 1), names[i], hs[i])

(* The default column family appended whether or not it was listed. *)
WithDefault_always(opts, cfs_in, cf_opts_in) ==
    [cfs_v |-> Append(cfs_in, DEFAULT_COLUMN_FAMILY),
     cf_opts_v |-> Append(cf_opts_in, opts)]

(* Lines 318-324: always open the default column family. *)
WithDefault(opts, cfs_in, cf_opts_in) ==
    IF ~Contains(cfs_in, DEFAULT_COLUMN_FAMILY)
    THEN [cfs_v |-> Append(cfs_in, DEFAULT_COLUMN_FAMILY),
          cf_opts_v |-> Append(cf_opts_in, opts)]
    ELSE [cfs_v |-> cfs_in, cf_opts_v |-> cf_opts_in]

OpenRet(path_ok, dir_ok, cfs_in, cf_opts_in, env, res) ==
    [op |-> "open_cf", path_ok |-> path_ok, dir_ok |-> dir_ok,
     cfs |-> cfs_in, cf_opts |-> cf_opts_in, env |-> env, res |-> res]

(* The length check left out. *)
LenMismatch_unchecked(cfs_in, cf_opts_in) == FALSE

(* Lines 314-316: cfs.len() != cf_opts.len() *)
LenMismatch(cfs_in, cf_opts_in) == Len(cfs_in) # Len(cf_opts_in)

NoDb == UNCHANGED <<phase, inner, cfs>>
NoEngineOpen == UNCHANGED <<store, disk, handles, edbs, nextH, openCall>>

open_cf(opts, path_ok, dir_ok, cfs_in, cf_opts_in, err) ==
    LET \* env: what the engine's open wrote to the error out-pointer
        Early(res) == OpenRet(path_ok, dir_ok, cfs_in, cf_opts_in, NoErr, res)
        Returns(res) == OpenRet(path_ok, dir_ok, cfs_in, cf_opts_in, err, res)
    IN
    IF ~path_ok
    THEN ret' = Early(Err(PathMsg)) /\ NoDb /\ NoEngineOpen
    ELSE IF ~dir_ok
    THEN ret' = Early(Err(DirMsg)) /\ NoDb /\ NoEngineOpen
    ELSE IF LenMismatch(cfs_in, cf_opts_in)
    THEN ret' = Early(Err(LenMsg)) /\ NoDb /\ NoEngineOpen
    ELSE
      LET v == WithDefault(opts, cfs_in, cf_opts_in)
          r == rocksdb_open_column_families(v.cfs_v, err)
      IN
      /\ openCall' = Some([opts |-> opts, names |-> v.cfs_v,
                           cf_opts |-> v.cf_opts_v])
      /\ IF err # NoErr
         THEN /\ ret' = Returns(Err(error_message(err)))
              /\ NoDb
              /\ UNCHANGED <<store, disk, handles, edbs, nextH>>
         ELSE
           \* the engine opened the database and its column families
           /\ store' = [n \in {v.cfs_v[i] : i \in 1..Len(v.cfs_v)} |->
                           IF n \in DOMAIN store THEN store[n] ELSE EmptyCF]
           /\ disk' = [n \in {v.cfs_v[i] : i \in 1..Len(v.cfs_v)} |->
                          IF n \in DOMAIN disk THEN disk[n] ELSE EmptyCF]
           /\ handles' = [h \in DOMAIN handles \cup
                                {r.cfhandles[i] : i \in 1..Len(v.cfs_v)} |->
                             IF h \in DOMAIN handles THEN handles[h]
                             ELSE v.cfs_v[h - nextH]]
           /\ edbs' = edbs \cup {r.db}
           /\ nextH' = nextH + Len(v.cfs_v) + 1
           /\ \E cfhandles \in HandlesRead(r.cfhandles) :
                IF \E i \in 1..Len(cfhandles) : cfhandles[i] = Null
                THEN /\ ret' = Returns(Err(NullCfMsg))
                     /\ NoDb
                ELSE IF r.db = Null
                THEN /\ ret' = Returns(Err(NullDbMsg))
                     /\ NoDb
                ELSE /\ ret' = Returns(Ok(r.db))
                     /\ phase' = "open"
                     /\ inner' = r.db
                     /\ cfs' = BuildCfMap(v.cfs_v, cfhandles, Len(v.cfs_v))

----------------------------------------------------------------------------
(* DB::create_cf.  name_ok: the name holds no NUL byte.  h is the pointer *)
(* rocksdb_create_column_family returned: on success a new handle of the  *)
(* new column family; on an error whatever the engine hands back, the     *)
(* null pointer or a handle that refers to no column family. *)

CreateRet(name, err, res) ==
    [op |-> "create_cf", name |-> name, env |-> err, res |-> res]

create_cf(name, name_ok, err, h) ==
    IF ~name_ok
    THEN /\ ret' = CreateRet(name, NoErr, Err(PathMsg))
         /\ UNCHANGED <<cfs, store, disk, handles, nextH>>
    ELSE
      /\ IF err = NoErr
         THEN /\ store' = [n \in DOMAIN store \cup {name} |->
                              IF n = name THEN EmptyCF ELSE store[n]]
              /\ disk' = [n \in DOMAIN disk \cup {name} |->
                             IF n = name THEN EmptyCF ELSE disk[n]]
              /\ handles' = [x \in DOMAIN handles \cup {h} |->
                                IF x = h THEN name ELSE handles[x]]
         ELSE UNCHANGED <<store, disk, handles>>
      /\ nextH' = IF h = Null THEN nextH ELSE nextH + 1
      \* line 553: the handle is inserted before the error is looked at
      /\ cfs' = MapInsert(cfs, name, h)
      /\ IF err # NoErr
         THEN ret' = CreateRet(name, err, Err(error_message(err)))
         ELSE ret' = CreateRet(name, err, Ok(h))

(* DB::drop_cf *)
DropRet(name, called, err, res) ==
    [op |-> "drop_cf", name |-> name, engine_called |-> called, env |-> err,
     res |-> res]

(* format!("Invalid column family: {}", name) *)
InvalidCfMsg(name) == "Invalid column family: " \o name

(* drop_cf that reports Ok whatever the engine reported. *)
drop_cf_swallow(name, err) ==
    IF name \notin DOMAIN cfs
    THEN /\ ret' = DropRet(name, FALSE, NoErr, Err(InvalidCfMsg(name)))
         /\ UNCHANGED <<store, disk>>
    ELSE
      /\ IF err = NoErr
         THEN /\ store' = [n \in DOMAIN store \ {handles[cfs[name]]} |->
                              store[n]]
              /\ disk' = [n \in DOMAIN disk \ {handles[cfs[name]]} |->
                             disk[n]]
         ELSE UNCHANGED <<store, disk>>
      /\ ret' = DropRet(name, TRUE, err, Ok(Unit))

drop_cf(name, err) ==
    IF name \notin DOMAIN cfs
    THEN /\ ret' = DropRet(name, FALSE, NoErr, Err(InvalidCfMsg(name)))
         /\ UNCHANGED <<store, disk>>
    ELSE
      \* rocksdb_drop_column_family(self.inner, *cf.unwrap(), err_ptr)
      /\ IF err = NoErr
         THEN /\ store' = [n \in DOMAIN store \ {handles[cfs[name]]} |->
                              store[n]]
              /\ disk' = [n \in DOMAIN disk \ {handles[cfs[name]]} |->
                             disk[n]]
         ELSE UNCHANGED <<store, disk>>
      /\ IF err # NoErr
         THEN ret' = DropRet(name, TRUE, err, Err(error_message(err)))
         ELSE ret' = DropRet(name, TRUE, err, Ok(Unit))

(* DB::cf_handle and DB::cf_names *)
cf_handle(name) == IF name \in DOMAIN cfs THEN Some(cfs[name]) ELSE None

(* The names in descending order. *)
cf_names_descending ==
    LET asc == SortedNames(DOMAIN cfs)
    IN [i \in 1..Len(asc) |-> asc[Len(asc) + 1 - i]]

cf_names == SortedNames(DOMAIN cfs)

(* impl Drop for DB: every handle of the CF map, in key order, goes to    *)
(* rocksdb_column_family_handle_destroy; then rocksdb_close. *)
DestroyCall(h) == [call |-> "column_family_handle_destroy", handle |-> h]
CloseCall(h) == [call |-> "close", handle |-> h]

(* The drop with rocksdb_close ahead of the handle releases. *)
DropCalls_close_first ==
    <<CloseCall(inner)>> \o
        [i \in 1..Cardinality(DOMAIN cfs) |-> DestroyCall(MapValues(cfs)[i])]

DropCalls ==
    [i \in 1..Cardinality(DOMAIN cfs) |-> DestroyCall(MapValues(cfs)[i])]
        \o <<CloseCall(inner)>>

DB_drop ==
    /\ relLog' = DropCalls
    /\ handles' = [h \in DOMAIN handles \ {cfs[n] : n \in DOMAIN cfs} |->
                      handles[h]]
    /\ edbs' = edbs \ {inner}
    /\ phase' = "dropped"
    /\ ret' = [op |-> "drop"]

----------------------------------------------------------------------------
(* The actions: one per call of the binding's API that changes state.     *)

lifeVars == <<phase, inner, cfs, held, handles, edbs, nextH, openCall,
             relLog, disk, calls, direct>>
batchVars == <<batch, bops>>
snapIterVars == <<snap, snapExp, iter, scan, borrows>>

IsOpen == phase = "open"

(* The handles of the CF map (cf_handle) that refer to a column family   *)
(* of the engine: the calls below are made with these. *)
Live(name) ==
    /\ cfs[name] \in DOMAIN handles
    /\ handles[cfs[name]] \in DOMAIN store

CfNames == {name \in DOMAIN cfs : Live(name)}

(* The default column family is there for the calls without a handle. *)
DefaultLive == DEFAULT_COLUMN_FAMILY \in DOMAIN store

(* Every handle queued in a batch refers to a column family. *)
BatchLive(rep) ==
    \A i \in 1..Len(rep) :
        IF rep[i].cf = Null THEN DefaultLive
        ELSE /\ rep[i].cf \in DOMAIN handles
             /\ handles[rep[i].cf] \in DOMAIN store

CountWrite == nwrites < MaxWrites /\ nwrites' = nwrites + 1

(* lastw holds the call just made when it was a write that returned Ok,  *)
(* with what the key held before it; any other call resets it. *)
NoWrite == [call |-> [kind |-> "none"], before |-> None]
NotAWrite == lastw' = NoWrite

Wrote(o) ==
    /\ expect' = IF ret'.res.ok THEN Apply(expect, o) ELSE expect
    /\ lastw' = IF ret'.res.ok
                THEN [call |-> o, before |-> expect[o.cf][o.key]]
                ELSE NoWrite

(* impl Writable for DB *)
DB_put(key, value, err) ==
    /\ IsOpen /\ CountWrite
    /\ put_opt(key, value, err)
    /\ Wrote(Op("put", DEFAULT_COLUMN_FAMILY, key, value))
    /\ UNCHANGED <<lifeVars, batchVars, snapIterVars>>

DB_put_cf(name, key, value, err) ==
    /\ IsOpen /\ CountWrite
    /\ put_cf_opt(cfs[name], key, value, err)
    /\ Wrote(Op("put", name, key, value))
    /\ UNCHANGED <<lifeVars, batchVars, snapIterVars>>

DB_merge(key, value, err) ==
    /\ IsOpen /\ CountWrite
    /\ merge_opt(key, value, err)
    /\ Wrote(Op("merge", DEFAULT_COLUMN_FAMILY, key, value))
    /\ UNCHANGED <<lifeVars, batchVars, snapIterVars>>

DB_merge_cf(name, key, value, err) ==
    /\ IsOpen /\ CountWrite
    /\ merge_cf_opt(cfs[name], key, value, err)
    /\ Wrote(Op("merge", name, key, value))
    /\ UNCHANGED <<lifeVars, batchVars, snapIterVars>>

DB_delete(key, err) ==
    /\ IsOpen /\ CountWrite
    /\ delete_opt(key, err)
    /\ Wrote(Op("delete", DEFAULT_COLUMN_FAMILY, key, <<>>))
    /\ UNCHANGED <<lifeVars, batchVars, snapIterVars>>

DB_delete_cf(name, key, err) ==
    /\ IsOpen /\ CountWrite
    /\ delete_cf_opt(cfs[name], key, err)
    /\ Wrote(Op("delete", name, key, <<>>))
    /\ UNCHANGED <<lifeVars, batchVars, snapIterVars>>

PutAction ==
    \E key \in WriteKeys, value \in Values, err \in EngineErrs :
        \/ DB_put(key, value, err)
        \/ \E name \in CfNames : DB_put_cf(name, key, value, err)

MergeAction ==
    \E key \in WriteKeys, value \in Values, err \in EngineErrs :
        \/ DB_merge(key, value, err)
        \/ \E name \in CfNames : DB_merge_cf(name, key, value, err)

DeleteAction ==
    \E key \in WriteKeys, err \in EngineErrs :
        \/ DB_delete(key, err)
        \/ \E name \in CfNames : DB_delete_cf(name, key, err)

----------------------------------------------------------------------------
(* Write batches. *)

BatchFrame ==
    /\ NotAWrite
    /\ UNCHANGED <<lifeVars, snapIterVars, store, expect>>

Batch_new ==
    /\ batch = None
    /\ WriteBatch_new
    /\ bops' = <<>>
    /\ ret' = [op |-> "batch_new"]
    /\ UNCHANGED nwrites
    /\ BatchFrame

Batch_put(key, value) ==
    /\ batch # None /\ CountWrite
    /\ WriteBatch_put(key, value)
    /\ bops' = Append(bops, Op("put", DEFAULT_COLUMN_FAMILY, key, value))
    /\ BatchFrame

Batch_put_cf(name, key, value) ==
    /\ batch # None /\ IsOpen /\ CountWrite
    /\ WriteBatch_put_cf(cfs[name], key, value)
    /\ bops' = Append(bops, Op("put", name, key, value))
    /\ BatchFrame

Batch_merge(key, value) ==
    /\ batch # None /\ CountWrite
    /\ WriteBatch_merge(key, value)
    /\ bops' = Append(bops, Op("merge", DEFAULT_COLUMN_FAMILY, key, value))
    /\ BatchFrame

Batch_merge_cf(name, key, value) ==
    /\ batch # None /\ IsOpen /\ CountWrite
    /\ WriteBatch_merge_cf(cfs[name], key, value)
    /\ bops' = Append(bops, Op("merge", name, key, value))
    /\ BatchFrame

Batch_delete(key) ==
    /\ batch # None /\ CountWrite
    /\ WriteBatch_delete(key)
    /\ bops' = Append(bops, Op("delete", DEFAULT_COLUMN_FAMILY, key, <<>>))
    /\ BatchFrame

Batch_delete_cf(name, key) ==
    /\ batch # None /\ IsOpen /\ CountWrite
    /\ WriteBatch_delete_cf(cfs[name], key)
    /\ bops' = Append(bops, Op("delete", name, key, <<>>))
    /\ BatchFrame

Batch_drop ==
    /\ batch # None
    /\ WriteBatch_drop
    /\ bops' = <<>>
    /\ ret' = [op |-> "batch_drop"]
    /\ UNCHANGED nwrites
    /\ BatchFrame

RECURSIVE ApplyAll(_, _)
ApplyAll(exp, ops) ==
    IF ops = <<>> THEN exp ELSE ApplyAll(Apply(exp, Head(ops)), Tail(ops))

(* DB::write: write_opt with default write options. *)
DB_write(err) ==
    /\ IsOpen /\ batch # None /\ BatchLive(batch[1])
    /\ write_opt(batch, err)
    /\ expect' = IF ret'.res.ok THEN ApplyAll(expect, bops) ELSE expect
    /\ lastw' = IF ret'.res.ok
                THEN [call |-> [kind |-> "write", ops |-> bops],
                      before |-> None]
                ELSE NoWrite
    /\ bops' = <<>>
    /\ UNCHANGED <<lifeVars, snapIterVars, nwrites>>

(* DB::write_opt called with the caller's write options, and              *)
(* DB::write_without_wal: write_opt with disable_wal(true).  The options  *)
(* choose how the engine logs the commit, which the store does not show. *)
DB_write_opt(err) == DB_write(err)
DB_write_without_wal(err) == DB_write(err)

BatchAction ==
    \/ Batch_new
    \/ Batch_drop
    \/ \E key \in BatchKeys, value \in Values :
          \/ Batch_put(key, value)
          \/ Batch_merge(key, value)
          \/ \E name \in CfNames : Batch_put_cf(name, key, value)
          \/ \E name \in CfNames : Batch_merge_cf(name, key, value)
    \/ \E key \in BatchKeys :
          \/ Batch_delete(key)
          \/ \E name \in CfNames : Batch_delete_cf(name, key)
    \/ \E err \in EngineErrs : DB_write(err)

----------------------------------------------------------------------------
(* Point reads as calls.  When the engine reports an error the value     *)
(* pointer it returns is not specified: the call is made with every one. *)

EngineReturned(stored, err) == IF err = NoErr THEN {stored} ELSE OptValues

(* called: the read options were created, so the engine was called. *)
GetRet(op, called, err, val, res) ==
    [op |-> op, called |-> called, env |-> err, val |-> val, res |-> res]

ReadFrame ==
    /\ NotAWrite
    /\ UNCHANGED <<lifeVars, batchVars, snapIterVars, store, expect, nwrites>>

DB_get_call(key, p, err) ==
    /\ IsOpen
    /\ \E val \in EngineReturned(store[DEFAULT_COLUMN_FAMILY][key], err) :
         \E r \in get_opt_from(ReadOptions_new(p), val, err) :
             ret' = GetRet("get", p # Null, err, val, r)
    /\ ReadFrame

DB_get_cf_call(name, key, p, err) ==
    /\ IsOpen
    /\ \E val \in EngineReturned(store[handles[cfs[name]]][key], err) :
         \E r \in get_cf_opt_from(ReadOptions_new(p), val, err) :
             ret' = GetRet("get_cf", p # Null, err, val, r)
    /\ ReadFrame

GetAction ==
    \E key \in Keys, p \in {Null, 1}, err \in EngineErrs :
        \/ DB_get_call(key, p, err)
        \/ \E name \in CfNames : DB_get_cf_call(name, key, p, err)

----------------------------------------------------------------------------
(* Snapshots and iterators. *)

writeVars == <<store, expect, nwrites>>

(* The reference to the DB that a new iterator or snapshot is given. *)
Borrow(kind) == [kind |-> kind, db |-> inner]

(* DB::release_snap as Drop for Snapshot calls it, on the DB the snapshot *)
(* refers to. *)
release_snap ==
    {[call |-> "release_snapshot", db |-> b.db] :
         b \in {x \in borrows : x.kind = "snapshot"}}

(* DB::snapshot *)
DB_snapshot ==
    /\ IsOpen /\ snap = None
    /\ Snapshot_new
    /\ snapExp' = expect
    /\ borrows' = borrows \cup {Borrow("snapshot")}
    /\ ret' = [op |-> "snapshot"]
    /\ NotAWrite
    /\ UNCHANGED <<lifeVars, batchVars, writeVars, iter, scan>>

(* The snapshot goes out of scope.  An iterator made from it borrows it,  *)
(* so the snapshot outlives the iterator. *)
Snap_drop ==
    /\ snap # None
    /\ iter # None => scan.src # "snapshot"
    /\ Snapshot_drop
    /\ snapExp' = None
    /\ borrows' = {b \in borrows : b.kind # "snapshot"}
    /\ ret' = [op |-> "snapshot_drop", released |-> release_snap]
    /\ NotAWrite
    /\ UNCHANGED <<lifeVars, batchVars, writeVars, iter, scan>>

NoScan == [src |-> "none", exp |-> EmptyCF, start |-> "none", dir |-> "none",
           keys |-> <<>>, pulled |-> <<>>]

(* A new iterator stands nowhere until it is sought. *)
NewScan(src, exp) == [NoScan EXCEPT !.src = src, !.exp = exp]

Iter_new ==
    /\ IsOpen /\ iter = None
    /\ DB_iter
    /\ scan' = NewScan("db", expect[DEFAULT_COLUMN_FAMILY])
    /\ borrows' = borrows \cup {Borrow("iter")}
    /\ ret' = [op |-> "iter"]
    /\ NotAWrite
    /\ UNCHANGED <<lifeVars, batchVars, writeVars, snap, snapExp>>

Iter_new_cf(name) ==
    /\ IsOpen /\ iter = None
    /\ iter_cf(cfs[name])
    /\ scan' = NewScan(name, expect[name])
    /\ borrows' = borrows \cup {Borrow("iter")}
    /\ ret' = [op |-> "iter_cf"]
    /\ NotAWrite
    /\ UNCHANGED <<lifeVars, batchVars, writeVars, snap, snapExp>>

Snap_iter ==
    /\ IsOpen /\ iter = None /\ snap # None
    /\ Snapshot_iter
    /\ scan' = NewScan("snapshot", snapExp[DEFAULT_COLUMN_FAMILY])
    /\ borrows' = borrows \cup {Borrow("iter")}
    /\ ret' = [op |-> "snapshot_iter"]
    /\ NotAWrite
    /\ UNCHANGED <<lifeVars, batchVars, writeVars, snap, snapExp>>

(* The keys seen so far in the scan: the key the iterator stands on after *)
(* the seek and after each move, while it is valid. *)
Seen(keys, it) ==
    IF valid(it) THEN Append(keys, rocksdb_iter_key(it)) ELSE keys

Iter_seek(key) ==
    /\ iter # None
    /\ seek(key)
    /\ scan' = [scan EXCEPT !.start = key.tag, !.dir = "none",
                            !.keys = Seen(<<>>, iter'[1]), !.pulled = <<>>]
    /\ NotAWrite
    /\ UNCHANGED <<lifeVars, batchVars, writeVars, snap, snapExp, borrows>>

(* A move in the direction of the scan extends it; a move the other way   *)
(* ends the record of the scan until the next seek. *)
Moved(dir) ==
    IF scan.dir \in {"none", dir}
    THEN [scan EXCEPT !.dir = dir, !.keys = Seen(@, iter'[1])]
    ELSE [scan EXCEPT !.dir = "mixed", !.keys = <<>>, !.pulled = <<>>]

(* next() and prev() forward to the engine whatever the iterator's state. *)
Iter_next ==
    /\ iter # None
    /\ next
    /\ scan' = Moved("next")
    /\ NotAWrite
    /\ UNCHANGED <<lifeVars, batchVars, writeVars, snap, snapExp, borrows>>

Iter_prev ==
    /\ iter # None
    /\ prev
    /\ scan' = Moved("prev")
    /\ NotAWrite
    /\ UNCHANGED <<lifeVars, batchVars, writeVars, snap, snapExp, borrows>>

Iter_drop ==
    /\ iter # None
    /\ DBIterator_drop
    /\ scan' = NoScan
    /\ borrows' = {b \in borrows : b.kind # "iter"}
    /\ ret' = [op |-> "iter_drop"]
    /\ NotAWrite
    /\ UNCHANGED <<lifeVars, batchVars, writeVars, snap, snapExp>>

SnapshotAction ==
    \/ DB_snapshot
    \/ Snap_drop
    \/ Snap_iter

(* DB::iter and DB::iter_cf *)
IteratorAction ==
    \/ Iter_new
    \/ \E name \in CfNames : Iter_new_cf(name)

IterCfAction == \E name \in CfNames : Iter_new_cf(name)

(* key() and value() take &self: nothing moves. *)
Iter_key ==
    /\ iter # None
    /\ ret' = [op |-> "key", res |-> DBIterator_key(iter[1])]
    /\ NotAWrite
    /\ UNCHANGED <<lifeVars, batchVars, writeVars, snap, snapExp, iter, scan,
                   borrows>>

Iter_value ==
    /\ iter # None
    /\ ret' = [op |-> "value", res |-> DBIterator_value(iter[1])]
    /\ NotAWrite
    /\ UNCHANGED <<lifeVars, batchVars, writeVars, snap, snapExp, iter, scan,
                   borrows>>

(* A pull right after the seek or after pulls extends the record of the  *)
(* pairs pulled; after other moves it ends the record of the scan. *)
Pulled ==
    IF scan.dir \in {"none", "pull"}
    THEN [scan EXCEPT !.dir = "pull", !.keys = <<>>,
                      !.pulled = IF ret'.res = None THEN @
                                 ELSE Append(@, ret'.res[1])]
    ELSE [scan EXCEPT !.dir = "mixed", !.keys = <<>>, !.pulled = <<>>]

Iter_pull ==
    /\ iter # None
    /\ Iterator_next
    /\ scan' = Pulled
    /\ NotAWrite
    /\ UNCHANGED <<lifeVars, batchVars, writeVars, snap, snapExp, borrows>>

(* The reads of the entry an iterator stands on. *)
AccessAction ==
    \/ Iter_key
    \/ Iter_value

(* The use of an iterator, whatever it was made from. *)
ScanAction ==
    \/ \E key \in SeekKeys : Iter_seek(key)
    \/ Iter_next
    \/ Iter_prev
    \/ Iter_drop

----------------------------------------------------------------------------
(* Opening, column family management and the drop of the DB. *)

dataVars == <<batch, bops, snap, snapExp, iter, scan, borrows, expect,
             nwrites>>

(* The caller's lists: names without duplicates, any number of options. *)
CfLists == {l \in BoundedSeqs(Names, MaxNames) : NoDuplicates(l)}
CfOptLists == BoundedSeqs({"cf_opts"}, MaxNames)

DB_open_cf(path_ok, dir_ok, cfs_in, cf_opts_in, err) ==
    /\ ~IsOpen
    /\ nextH + Len(cfs_in) + 2 <= MaxHandles
    /\ open_cf(DbOpts, path_ok, dir_ok, cfs_in, cf_opts_in, err)
    /\ relLog' = IF ret'.res.ok THEN <<>> ELSE relLog
    /\ NotAWrite
    /\ UNCHANGED <<held, dataVars, calls, direct>>

(* The engine hands out a new handle on success; on an error the null     *)
(* pointer or a pointer that refers to no column family. *)
DB_create_cf(name, name_ok, err, h) ==
    /\ IsOpen
    /\ h \in IF err = NoErr THEN {nextH} ELSE {Null, nextH}
    /\ nextH < MaxHandles
    /\ create_cf(name, name_ok, err, h)
    /\ NotAWrite
    /\ UNCHANGED <<phase, inner, held, edbs, openCall, relLog, dataVars,
                   calls, direct>>

(* The engine is handed the handle the map holds for the name: it can     *)
(* drop the column family only when that handle refers to one. *)
DB_drop_cf(name, err) ==
    /\ IsOpen
    /\ (name \in DOMAIN cfs /\ err = NoErr) =>
           (cfs[name] \in DOMAIN handles /\ handles[cfs[name]] \in DOMAIN store)
    /\ drop_cf(name, err)
    /\ NotAWrite
    /\ UNCHANGED <<phase, inner, cfs, held, handles, edbs, nextH, openCall,
                   relLog, dataVars, calls, direct>>

(* The DB is not borrowed: without a reference to it. *)
Unborrowed_unchecked == TRUE

(* DBIterator<'a> and Snapshot<'a> hold `db: &'a DB`: a DB that an        *)
(* iterator or a snapshot refers to cannot be dropped. *)
Unborrowed == borrows = {}

Drop_DB ==
    /\ IsOpen /\ Unborrowed
    /\ DB_drop
    /\ NotAWrite
    /\ UNCHANGED <<inner, cfs, held, store, disk, nextH, openCall, dataVars,
                   calls, direct>>

LifeAction ==
    \/ \E path_ok, dir_ok \in BOOLEAN, cfs_in \in CfLists,
          cf_opts_in \in CfOptLists, err \in EngineErrs :
          DB_open_cf(path_ok, dir_ok, cfs_in, cf_opts_in, err)
    \/ \E name \in Names, name_ok \in BOOLEAN, err \in EngineErrs,
          h \in 0..MaxHandles :
          DB_create_cf(name, name_ok, err, h)
    \/ \E name \in Names, err \in EngineErrs : DB_drop_cf(name, err)
    \/ Drop_DB

(* DBCFHandle is a Copy type: cf_handle lends a reference into the CF     *)
(* map and the caller copies the handle out of it by a dereference, as   *)
(* drop_cf and the drop of the DB do; create_cf returns such a copy.      *)
(* The copy has no lifetime: the caller keeps it whatever becomes of the  *)
(* DB. *)
Cf_handle(name) ==
    /\ IsOpen /\ cf_handle(name) # None
    /\ held' = held \cup {[handle |-> cf_handle(name)[1], db |-> inner]}
    /\ ret' = [op |-> "cf_handle", name |-> name, res |-> cf_handle(name)]
    /\ NotAWrite
    /\ UNCHANGED <<phase, inner, cfs, handles, edbs, nextH, openCall, relLog,
                   store, disk, dataVars, calls, direct>>

(* The handle refers to a column family of the engine. *)
Refers(h) == h \in DOMAIN handles /\ handles[h] \in DOMAIN store

(* rocksdb_put_cf with a handle that was destroyed: the engine reads      *)
(* freed memory.  Of what can follow, the model has the calls that        *)
(* return: nothing is written, or the value goes into some column family  *)
(* of the database. *)
DanglingPut(st, key, value) ==
    {st} \cup {[st EXCEPT ![n][key] = Some(value)] : n \in DOMAIN st}

(* put_cf on the live DB with a handle the caller holds: any DBCFHandle   *)
(* is accepted, from whichever DB it was taken. *)
DB_put_cf_held(x, key, value, err) ==
    /\ IsOpen /\ CountWrite
    /\ x \in held
    /\ IF Refers(x.handle)
       THEN /\ put_cf_opt(x.handle, key, value, err)
            /\ Wrote(Op("put", handles[x.handle], key, value))
       ELSE /\ store' \in DanglingPut(store, Slice(key, Len(key)),
                                       Slice(value, Len(value)))
            /\ ret' = WriteRet("put_cf", err)
            /\ NotAWrite
            /\ UNCHANGED expect
    /\ UNCHANGED <<lifeVars, batchVars, snapIterVars>>

HeldAction ==
    \/ \E name \in Names : Cf_handle(name)
    \/ \E x \in held, key \in BatchKeys, value \in Values,
          err \in EngineErrs : DB_put_cf_held(x, key, value, err)

(* DB::destroy and DB::repair are called with a path, with or without a   *)
(* DB; the engine takes the lock of the path first, so it reports that    *)
(* the lock is not available while a database handle is open, and any of  *)
(* its other outcomes when none is. *)
LockErr == "IO error: lock P/LOCK: No locks available"
LockFree(err) == IF edbs # {} THEN err = LockErr ELSE err \in EngineErrs

MaintFrame ==
    /\ NotAWrite
    /\ UNCHANGED <<phase, inner, cfs, held, handles, edbs, nextH, openCall,
                   relLog, batchVars, snapIterVars, expect, nwrites, calls, direct>>

DB_destroy(err) ==
    /\ LockFree(err)
    /\ destroy(DbOpts, err)
    /\ MaintFrame

DB_repair(err) ==
    /\ LockFree(err)
    /\ repair(DbOpts, err)
    /\ MaintFrame

DB_flush(sync, err) ==
    /\ IsOpen
    /\ flush(sync, err)
    /\ MaintFrame

(* The keys of a column family that hold a value. *)
Present(cf) == {k \in Keys : cf[k] # None}

DB_delete_file_in_range(start_key, end_key, gone, err) ==
    /\ IsOpen
    /\ gone \subseteq Present(disk[DEFAULT_COLUMN_FAMILY])
    /\ delete_file_in_range(start_key, end_key, gone, err)
    /\ MaintFrame

DB_delete_file_in_range_cf(name, start_key, end_key, gone, err) ==
    /\ IsOpen
    /\ gone \subseteq Present(disk[handles[cfs[name]]])
    /\ delete_file_in_range_cf(cfs[name], start_key, end_key, gone, err)
    /\ MaintFrame

(* The ranges of the range deletions: one over the two smaller keys, one *)
(* over the middle key, one with its ends the wrong way round. *)
FileRanges ==
    {<<(<<1>>), (<<2>>)>>, <<(<<1, 2>>), (<<2>>)>>, <<(<<2>>), (<<1>>)>>}

MaintAction ==
    \/ \E err \in EngineErrs \cup {LockErr} : DB_destroy(err) \/ DB_repair(err)
    \/ \E sync \in BOOLEAN, err \in EngineErrs : DB_flush(sync, err)
    \/ \E range \in FileRanges, err \in EngineErrs :
        LET start_key == range[1]
            end_key == range[2]
        IN
          \/ /\ DefaultLive
             /\ \E gone \in SUBSET Present(disk[DEFAULT_COLUMN_FAMILY]) :
                   DB_delete_file_in_range(start_key, end_key, gone, err)
          \/ \E name \in CfNames :
                \E gone \in SUBSET Present(disk[handles[cfs[name]]]) :
                   DB_delete_file_in_range_cf(name, start_key, end_key, gone,
                                              err)

----------------------------------------------------------------------------
(* Initial states and specifications. *)

(* No call was made directly yet, and the first database was not read. *)
NoDirect == [made |-> 0, seen |-> None]

NoData ==
    /\ batch = None /\ bops = <<>>
    /\ snap = None /\ snapExp = None
    /\ iter = None /\ scan = NoScan
    /\ lastw = NoWrite
    /\ nwrites = 0
    /\ calls = [t \in Threads |-> Idle]
    /\ direct = NoDirect
    /\ borrows = {}

(* Before DB::open_cf: the engine holds nothing. *)
InitClosed ==
    /\ phase = "closed" /\ inner = Null /\ cfs = <<>> /\ held = {}
    /\ store = <<>> /\ disk = <<>>
    /\ handles = <<>> /\ edbs = {} /\ nextH = 1
    /\ openCall = None /\ relLog = <<>>
    /\ expect = <<>>
    /\ NoData
    /\ ret = [op |-> "none"]

(* The state after DB::open_cf(opts, path, &["cf1"], &[cf_opts]) returned *)
(* Ok on a new directory, holding the given contents. *)
Opened(contents) ==
    /\ phase = "open" /\ inner = 1
    /\ cfs = BuildCfMap(<<"cf1", DEFAULT_COLUMN_FAMILY>>, <<2, 3>>, 2)
    /\ held = {}
    /\ store = contents
    /\ disk = [n \in Names |-> EmptyCF]
    /\ handles = [h \in {2, 3} |-> <<"", "cf1", DEFAULT_COLUMN_FAMILY>>[h]]
    /\ edbs = {1} /\ nextH = 4
    /\ openCall = Some([opts |-> DbOpts,
                        names |-> <<"cf1", DEFAULT_COLUMN_FAMILY>>,
                        cf_opts |-> <<"cf_opts", DbOpts>>])
    /\ relLog = <<>>
    /\ expect = contents
    /\ NoData
    /\ ret = OpenRet(TRUE, TRUE, <<"cf1">>, <<"cf_opts">>, NoErr, Ok(1))

InitOpen == Opened([n \in Names |-> EmptyCF])

(* Any contents: each column family holds any set of the keys. *)
Contents ==
    [Names -> {[k \in Keys |-> IF k \in S THEN Some(<<7>>) ELSE None] :
                   S \in SUBSET Keys}]

InitAny == \E contents \in Contents : Opened(contents)

(* Point writes and write batches on an open database. *)
Next == PutAction \/ MergeAction \/ DeleteAction \/ BatchAction
Spec == InitOpen /\ [][Next]_vars

(* Puts and deletes with snapshots and iterators. *)
NextSnap == PutAction \/ DeleteAction \/ SnapshotAction \/ ScanAction
SpecSnap == InitOpen /\ [][NextSnap]_vars

(* Iterators over any database contents. *)
NextIter == IteratorAction \/ ScanAction \/ AccessAction \/ Iter_pull
SpecIter == InitAny /\ [][NextIter]_vars

(* Puts and deletes with iterators over the column families. *)
NextCf == PutAction \/ DeleteAction \/ IterCfAction \/ ScanAction
SpecCf == InitOpen /\ [][NextCf]_vars

(* Point reads over any database contents. *)
NextGet == GetAction
SpecGet == InitAny /\ [][NextGet]_vars

(* The life of a DB: open, column family management, drop. *)
NextLife == LifeAction
SpecLife == InitClosed /\ [][NextLife]_vars

(* CF handles in the caller's hands over the life of two DBs. *)
NextBorrow ==
    \/ HeldAction
    \/ Drop_DB
    \/ \E path_ok, dir_ok \in BOOLEAN, cfs_in \in CfLists,
          cf_opts_in \in CfOptLists, err \in EngineErrs :
          DB_open_cf(path_ok, dir_ok, cfs_in, cf_opts_in, err)
SpecBorrow == InitOpen /\ [][NextBorrow]_vars

(* Range::new on every pair of byte strings of up to MaxKeyLen bytes. *)
RangeKeys == BoundedSeqs({1, 2, 3}, MaxKeyLen)

Range_call(start_key, end_key) ==
    /\ ret' = [op |-> "range_new", start_key |-> start_key,
               end_key |-> end_key, res |-> Range_new(start_key, end_key)]
    /\ NotAWrite
    /\ UNCHANGED <<lifeVars, batchVars, snapIterVars, writeVars>>

RangeAction == \E start_key, end_key \in RangeKeys :
                   Range_call(start_key, end_key)

NextRange == RangeAction
SpecRange == InitOpen /\ [][NextRange]_vars

(* Every call that has the engine's error out-pointer: the life of a DB   *)
(* (opened with a path and a directory that are in order), maintenance,   *)
(* reads of one key, MaxErrWrites writes of one key and value, and the    *)
(* commit of a batch of puts. *)
ErrLifeAction ==
    \/ \E cfs_in \in CfLists, cf_opts_in \in CfOptLists, err \in EngineErrs :
          DB_open_cf(TRUE, TRUE, cfs_in, cf_opts_in, err)
    \/ \E name \in Names, name_ok \in BOOLEAN, err \in EngineErrs,
          h \in 0..MaxHandles :
          DB_create_cf(name, name_ok, err, h)
    \/ \E name \in Names, err \in EngineErrs : DB_drop_cf(name, err)
    \/ Drop_DB

ErrGetAction ==
    \E key \in BatchKeys, p \in {Null, 1}, err \in EngineErrs :
        /\ DefaultLive
        /\ \/ DB_get_call(key, p, err)
           \/ \E name \in CfNames : DB_get_cf_call(name, key, p, err)

ErrWriteAction ==
    \E key \in BatchKeys, value \in {<<7>>}, err \in EngineErrs :
        /\ nwrites < MaxErrWrites
        /\ \/ DefaultLive /\ DB_put(key, value, err)
           \/ DefaultLive /\ DB_merge(key, value, err)
           \/ DefaultLive /\ DB_delete(key, err)
           \/ \E name \in CfNames :
                 \/ DB_put_cf(name, key, value, err)
                 \/ DB_merge_cf(name, key, value, err)
                 \/ DB_delete_cf(name, key, err)

ErrBatchAction ==
    \/ Batch_new
    \/ \E key \in BatchKeys, value \in {<<7>>} :
          nwrites < MaxErrWrites /\ Batch_put(key, value)
    \/ \E err \in EngineErrs : DB_write(err)

NextErr ==
    \/ ErrLifeAction
    \/ MaintAction
    \/ ErrGetAction
    \/ ErrWriteAction
    \/ ErrBatchAction
SpecErr == InitOpen /\ [][NextErr]_vars

----------------------------------------------------------------------------
(* Properties.  The engine answers a property query with a null pointer   *)
(* when the property does not exist and with a malloc'd C string          *)
(* otherwise; the string is a sequence of bytes.  The model's u64 holds   *)
(* the numbers up to U64_MAX, so that overflow happens on strings of      *)
(* MaxPropLen bytes; the bytes are the plus sign, the digits 0, 1 and 9,  *)
(* and a byte that is in no UTF-8 text. *)
MaxPropLen == 3
U64_MAX == 99

PropBytes == {43, 48, 49, 57, 255}
PropStrings == BoundedSeqs(PropBytes, MaxPropLen)
PropAnswers == {None} \cup {Some(s) : s \in PropStrings}

rocksdb_property_value(db, name, answer) == answer
rocksdb_property_value_cf(db, cf, name, answer) == answer

Panicked == [panic |-> TRUE]
Gives(v) == [panic |-> FALSE, val |-> v]

(* CStr::to_str: the bytes are valid UTF-8 (of the bytes of the model,    *)
(* the ones below 128 are; 255 is in no UTF-8 text). *)
to_str(bytes) ==
    IF \A i \in 1..Len(bytes) : bytes[i] < 128 THEN Ok(bytes)
    ELSE Err("Utf8Error")

(* str::parse::<u64>: an optional plus sign, then one decimal digit or    *)
(* more, accumulated with checked multiplication and addition. *)
RECURSIVE from_str_radix(_, _, _)
from_str_radix(digits, i, result) ==
    IF i > Len(digits) THEN Ok(result)
    ELSE IF digits[i] \notin 48..57 THEN Err("InvalidDigit")
    ELSE IF result * 10 > U64_MAX THEN Err("PosOverflow")
    ELSE IF result * 10 + (digits[i] - 48) > U64_MAX THEN Err("PosOverflow")
    ELSE from_str_radix(digits, i + 1, result * 10 + (digits[i] - 48))

parse_u64(s) ==
    IF Len(s) = 0 THEN Err("Empty")
    ELSE LET digits == IF s[1] = 43 THEN Tail(s) ELSE s
         IN IF Len(digits) = 0 THEN Err("InvalidDigit")
            ELSE from_str_radix(digits, 1, 0)

(* DB::get_property_value_cf_opt: CString::new(name).unwrap() panics on a *)
(* name with a NUL byte, to_str().unwrap() on bytes that are not UTF-8.   *)
get_property_value_cf_opt(cf, name_ok, answer) ==
    IF ~name_ok THEN Panicked
    ELSE LET value == IF cf = None
                      THEN rocksdb_property_value(inner, name_ok, answer)
                      ELSE rocksdb_property_value_cf(inner, cf[1], name_ok,
                                                     answer)
         IN IF value = None THEN Gives(None)
            ELSE IF ~to_str(value[1]).ok THEN Panicked
            ELSE Gives(Some(to_str(value[1]).val))

(* DB::get_property_int_cf_opt *)
get_property_int_cf_opt_lossy(cf, name_ok, answer) ==
    LET value == get_property_value_cf_opt(cf, name_ok, answer)
    IN IF value.panic THEN Panicked
       ELSE IF value.val # None
            THEN IF parse_u64(value.val[1]).ok
                 THEN Gives(Some(parse_u64(value.val[1]).val))
                 ELSE Gives(Some(0))
            ELSE Gives(None)

get_property_int_cf_opt(cf, name_ok, answer) ==
    LET value == get_property_value_cf_opt(cf, name_ok, answer)
    IN IF value.panic THEN Panicked
       ELSE IF value.val # None /\ parse_u64(value.val[1]).ok
            THEN Gives(Some(parse_u64(value.val[1]).val))
            ELSE Gives(None)

(* DB::get_property_value[_cf] and DB::get_property_int[_cf]; str is what *)
(* get_property_value gives for the same property at the same time. *)
PropRet(op, cf, name_ok, answer, res) ==
    [op |-> op, cf |-> cf, name_ok |-> name_ok, env |-> answer,
     str |-> get_property_value_cf_opt(cf, name_ok, answer), res |-> res]

PropFrame ==
    /\ NotAWrite
    /\ UNCHANGED <<lifeVars, batchVars, snapIterVars, writeVars>>

DB_get_property_value(cf, name_ok, answer) ==
    /\ IsOpen
    /\ ret' = PropRet("get_property_value", cf, name_ok, answer,
                      get_property_value_cf_opt(cf, name_ok, answer))
    /\ PropFrame

DB_get_property_int(cf, name_ok, answer) ==
    /\ IsOpen
    /\ ret' = PropRet("get_property_int", cf, name_ok, answer,
                      get_property_int_cf_opt(cf, name_ok, answer))
    /\ PropFrame

PropCfs == {None} \cup {Some(cfs[name]) : name \in CfNames}

PropAction ==
    \E cf \in PropCfs, name_ok \in BOOLEAN, answer \in PropAnswers :
        \/ DB_get_property_value(cf, name_ok, answer)
        \/ DB_get_property_int(cf, name_ok, answer)

NextProp == PropAction
SpecProp == InitOpen /\ [][NextProp]_vars

----------------------------------------------------------------------------
(* Approximate sizes.  The engine's side, from its contract: the estimate *)
(* of a range is the bytes its keys take in the on-disk files of the      *)
(* column family; what is in the write buffer alone is not counted.  The  *)
(* engine stores one size per range it is given, in the order given. *)
RECURSIVE SumBytes(_, _)
SumBytes(files, ks) ==
    IF ks = {} THEN 0
    ELSE LET k == CHOOSE x \in ks : TRUE
         IN Len(k) + Len(files[k][1]) + SumBytes(files, ks \ {k})

ApproxSize(files, start_key, end_key) ==
    SumBytes(files, {k \in Present(files) : InRange(k, start_key, end_key)})

rocksdb_approximate_sizes(n, start_keys, end_keys) ==
    [i \in 1..n |-> ApproxSize(disk[DEFAULT_COLUMN_FAMILY],
                               start_keys[i], end_keys[i])]

rocksdb_approximate_sizes_cf(cf, n, start_keys, end_keys) ==
    [i \in 1..n |-> ApproxSize(disk[handles[cf]],
                               start_keys[i], end_keys[i])]

(* The engine flushes a write buffer on its own when the buffer is full. *)
BackgroundFlush(name) ==
    /\ IsOpen /\ name \in DOMAIN store
    /\ disk' = FlushedCf(disk, store, name)
    /\ disk' # disk
    /\ UNCHANGED <<phase, inner, cfs, held, handles, edbs, nextH, openCall,
                   relLog, batchVars, snapIterVars, writeVars, lastw, calls, direct,
                   ret>>

(* DB::get_approximate_sizes_cfopt with the range ends marshalled the     *)
(* wrong way round. *)
get_approximate_sizes_cfopt_swapped(cf, ranges) ==
    LET start_keys == [i \in 1..Len(ranges) |->
                          Slice(ranges[i].end_key, Len(ranges[i].end_key))]
        end_keys == [i \in 1..Len(ranges) |->
                        Slice(ranges[i].start_key, Len(ranges[i].start_key))]
        sizes == [i \in 1..Len(ranges) |-> 0]
        n == Len(ranges)
        stored == IF cf = None
                  THEN rocksdb_approximate_sizes(n, start_keys, end_keys)
                  ELSE rocksdb_approximate_sizes_cf(cf[1], n, start_keys,
                                                    end_keys)
    IN [i \in 1..Len(sizes) |-> IF i <= n THEN stored[i] ELSE sizes[i]]

(* DB::get_approximate_sizes_cfopt: four parallel arrays from the ranges  *)
(* (start pointers, start lengths, end pointers, end lengths), a vector   *)
(* of ranges.len() zeroes for the engine to fill, which is returned. *)
get_approximate_sizes_cfopt(cf, ranges) ==
    LET start_keys == [i \in 1..Len(ranges) |->
                          Slice(ranges[i].start_key, Len(ranges[i].start_key))]
        end_keys == [i \in 1..Len(ranges) |->
                        Slice(ranges[i].end_key, Len(ranges[i].end_key))]
        sizes == [i \in 1..Len(ranges) |-> 0]
        n == Len(ranges)
        stored == IF cf = None
                  THEN rocksdb_approximate_sizes(n, start_keys, end_keys)
                  ELSE rocksdb_approximate_sizes_cf(cf[1], n, start_keys,
                                                    end_keys)
    IN [i \in 1..Len(sizes) |-> IF i <= n THEN stored[i] ELSE sizes[i]]

(* DB::get_approximate_sizes and DB::get_approximate_sizes_cf *)
SizesRet(op, name, ranges, res) ==
    [op |-> op, name |-> name, ranges |-> ranges, res |-> res]

DB_get_approximate_sizes(ranges) ==
    /\ IsOpen /\ DefaultLive
    /\ ret' = SizesRet("get_approximate_sizes", DEFAULT_COLUMN_FAMILY, ranges,
                       get_approximate_sizes_cfopt(None, ranges))
    /\ PropFrame

DB_get_approximate_sizes_cf(name, ranges) ==
    /\ IsOpen /\ Live(name)
    /\ ret' = SizesRet("get_approximate_sizes_cf", handles[cfs[name]], ranges,
                       get_approximate_sizes_cfopt(Some(cfs[name]), ranges))
    /\ PropFrame

(* The ranges of the size queries, up to MaxRanges in one call: one over  *)
(* the smallest key, one over the two others, one that is empty. *)
MaxRanges == 2
SizeRanges ==
    {Range_new(<<1>>, <<1, 2>>), Range_new(<<1, 2>>, <<3>>),
     Range_new(<<1, 2>>, <<1, 2>>)}
RangeLists == BoundedSeqs(SizeRanges, MaxRanges)

SizeAction ==
    \E ranges \in RangeLists :
        \/ DB_get_approximate_sizes(ranges)
        \/ \E name \in CfNames : DB_get_approximate_sizes_cf(name, ranges)

SizeWriteAction ==
    \E key \in WriteKeys, value \in {<<7>>}, err \in {NoErr} :
        \/ DefaultLive /\ DB_put(key, value, err)
        \/ DefaultLive /\ DB_delete(key, err)
        \/ \E name \in CfNames : DB_put_cf(name, key, value, err)

SizeFlushAction ==
    \/ \E sync \in BOOLEAN, err \in EngineErrs : DB_flush(sync, err)
    \/ \E name \in Names : BackgroundFlush(name)

NextSize == SizeWriteAction \/ SizeFlushAction \/ SizeAction
SpecSize == InitOpen /\ [][NextSize]_vars

----------------------------------------------------------------------------
(* Several threads on one shared DB.  The binding keeps no state of its   *)
(* own across put, delete, get and write (each call builds its options,   *)
(* makes one engine call and converts the result), so a call is three     *)
(* steps of its thread: the call is made, the engine call runs, the call  *)
(* returns.  The engine's side, from its contract: each engine call is    *)
(* atomic, a batch included.  `at` is what the writes that took effect    *)
(* before the engine call add up to. *)
ConcBatch ==
    rocksdb_writebatch_delete(
        rocksdb_writebatch_put(rocksdb_writebatch_create, <<1>>, <<8, 9>>),
        <<1, 2>>)
ConcBatchOps ==
    <<Op("put", DEFAULT_COLUMN_FAMILY, <<1>>, <<8, 9>>),
      Op("delete", DEFAULT_COLUMN_FAMILY, <<1, 2>>, <<>>)>>

ConcCalls ==
    {Op("put", DEFAULT_COLUMN_FAMILY, k, <<7>>) : k \in WriteKeys}
        \cup {Op("delete", DEFAULT_COLUMN_FAMILY, k, <<>>) : k \in WriteKeys}
        \cup {Op("get", DEFAULT_COLUMN_FAMILY, k, <<>>) : k \in WriteKeys}
        \cup {[kind |-> "write", rep |-> ConcBatch, ops |-> ConcBatchOps],
              [kind |-> "snapshot"]}

IsWriteCall(c) == c.kind \in {"put", "delete", "write"}

ConcFrame ==
    UNCHANGED <<phase, inner, cfs, held, handles, edbs, nextH, openCall,
                relLog, disk, direct, batchVars, snapIterVars>>

Thread_call(t, c) ==
    /\ IsOpen /\ calls[t].st = "idle"
    /\ IsWriteCall(c) => nwrites < MaxWrites
    /\ nwrites' = IF IsWriteCall(c) THEN nwrites + 1 ELSE nwrites
    /\ calls' = [calls EXCEPT ![t] = [st |-> "called", call |-> c]]
    /\ UNCHANGED <<store, expect, lastw, ret>>
    /\ ConcFrame

(* The engine call of Writable for DB (put, delete), DB::write_opt,       *)
(* DB::get_opt and DB::snapshot, and the result the binding makes of it. *)
Thread_engine(t, err) ==
    /\ calls[t].st = "called"
    /\ LET c == calls[t].call
           Ran(res) == [st |-> "ran", call |-> c, res |-> res, at |-> expect]
       IN CASE c.kind = "put" ->
                 /\ store' = rocksdb_put(store, Slice(c.key, Len(c.key)),
                                         Slice(c.value, Len(c.value)), err)
                 /\ expect' = IF err = NoErr THEN Apply(expect, c) ELSE expect
                 /\ calls' = [calls EXCEPT ![t] = Ran(WriteResult(err))]
            [] c.kind = "delete" ->
                 /\ store' = rocksdb_delete(store, Slice(c.key, Len(c.key)),
                                            err)
                 /\ expect' = IF err = NoErr THEN Apply(expect, c) ELSE expect
                 /\ calls' = [calls EXCEPT ![t] = Ran(WriteResult(err))]
            [] c.kind = "write" ->
                 /\ store' = rocksdb_write(store, c.rep, err)
                 /\ expect' = IF err = NoErr THEN ApplyAll(expect, c.ops)
                              ELSE expect
                 /\ calls' = [calls EXCEPT ![t] = Ran(WriteResult(err))]
            [] c.kind = "get" ->
                 /\ \E res \in get_opt(c.key, ReadOptions_new(1), err) :
                        calls' = [calls EXCEPT ![t] = Ran(res)]
                 /\ UNCHANGED <<store, expect>>
            [] c.kind = "snapshot" ->
                 /\ err = NoErr
                 /\ calls' = [calls EXCEPT ![t] = Ran(Ok(unsafe_snap))]
                 /\ UNCHANGED <<store, expect>>
    /\ UNCHANGED <<nwrites, lastw, ret>>
    /\ ConcFrame

Thread_return(t) ==
    /\ calls[t].st = "ran"
    /\ ret' = [op |-> calls[t].call.kind, thread |-> t, res |-> calls[t].res]
    /\ calls' = [calls EXCEPT ![t] = Idle]
    /\ NotAWrite
    /\ UNCHANGED <<store, expect, nwrites>>
    /\ ConcFrame

ThreadAction ==
    \E t \in Threads :
        \/ \E c \in ConcCalls : Thread_call(t, c)
        \/ \E err \in EngineErrs : Thread_engine(t, err)
        \/ Thread_return(t)

NextConc == ThreadAction
SpecConc == InitOpen /\ [][NextConc]_vars

----------------------------------------------------------------------------
(* Iterators and snapshots over the life of two DBs: they are made and    *)
(* dropped, the DB is dropped and a second one opened. *)
NextOwn ==
    \/ SnapshotAction
    \/ IteratorAction
    \/ Iter_drop
    \/ Drop_DB
    \/ \E cfs_in \in CfLists, err \in EngineErrs :
          DB_open_cf(TRUE, TRUE, cfs_in, [i \in 1..Len(cfs_in) |-> "cf_opts"],
                     err)
SpecOwn == InitAny /\ [][NextOwn]_vars

----------------------------------------------------------------------------
(* Batches that are filled and then committed by each of the three write  *)
(* routines, with and without an engine error, or dropped uncommitted. *)
CommitAction ==
    \E err \in EngineErrs :
        \/ DB_write(err)
        \/ DB_write_opt(err)
        \/ DB_write_without_wal(err)

NextBatch ==
    \/ Batch_new
    \/ Batch_drop
    \/ \E key \in BatchKeys, value \in Values : Batch_put(key, value)
    \/ \E key \in BatchKeys : Batch_delete(key)
    \/ CommitAction
SpecBatch == InitOpen /\ [][NextBatch]_vars

----------------------------------------------------------------------------
(* Direct and batched writes side by side.  Two databases are opened      *)
(* alike on new directories, so that the engine holds the same (empty)    *)
(* column families for both and the model gives their CF handles the same *)
(* numbers.  The caller queues calls on a WriteBatch and makes each of    *)
(* them on the first database as well; the first database is then read    *)
(* and the batch is committed to the second.  `store` is the database the *)
(* calls act on: the first one until Open_second, the second one after. *)
FreshContents == [n \in Names |-> EmptyCF]

AgreeFrame ==
    UNCHANGED <<phase, inner, cfs, held, handles, edbs, nextH, openCall,
                relLog, disk, calls, batchVars, snapIterVars, nwrites>>

(* The next call of the batch's history made on the DB, through impl      *)
(* Writable for DB. *)
Direct_call ==
    /\ IsOpen /\ direct.seen = None /\ direct.made < Len(bops)
    /\ LET o == bops[direct.made + 1]
       IN  /\ CASE o.kind = "put" /\ o.cf = DEFAULT_COLUMN_FAMILY ->
                       put_opt(o.key, o.value, NoErr)
                [] o.kind = "put" /\ o.cf # DEFAULT_COLUMN_FAMILY ->
                       put_cf_opt(cfs[o.cf], o.key, o.value, NoErr)
                [] o.kind = "delete" /\ o.cf = DEFAULT_COLUMN_FAMILY ->
                       delete_opt(o.key, NoErr)
                [] o.kind = "delete" /\ o.cf # DEFAULT_COLUMN_FAMILY ->
                       delete_cf_opt(cfs[o.cf], o.key, NoErr)
           /\ Wrote(o)
    /\ direct' = [direct EXCEPT !.made = @ + 1]
    /\ AgreeFrame

(* The first database has had every call of the batch: it is read, and    *)
(* the calls from here on act on the second database, which holds what    *)
(* the first held when it was opened. *)
Open_second ==
    /\ IsOpen /\ batch # None /\ direct.seen = None
    /\ bops # <<>> /\ direct.made = Len(bops)
    /\ direct' = [direct EXCEPT !.seen = Some(store)]
    /\ store' = FreshContents
    /\ expect' = FreshContents
    /\ ret' = [op |-> "open_second"]
    /\ NotAWrite
    /\ AgreeFrame

AgreeFill ==
    /\ direct.seen = None
    /\ \/ Batch_new
       \/ \E key \in WriteKeys, value \in Values :
             \/ Batch_put(key, value)
             \/ Batch_put_cf("cf1", key, value)
       \/ \E key \in WriteKeys :
             \/ Batch_delete(key)
             \/ Batch_delete_cf("cf1", key)

AgreeCommit ==
    /\ direct.seen # None
    /\ \E err \in EngineErrs : DB_write(err) \/ DB_write_without_wal(err)

NextAgree == AgreeFill \/ Direct_call \/ Open_second \/ AgreeCommit
SpecAgree == InitOpen /\ [][NextAgree]_vars

----------------------------------------------------------------------------
(* The claims. *)

(* The bytes a get returned, when it returned a value. *)
Returned(r) == r.ok /\ r.val # None
BytesOf(r) == DBVector_deref(r.val[1])

(* What DB::get and DB::get_cf can return while the engine reports no     *)
(* error and hands out read options. *)
Get(key) == DB_get(key, 1, NoErr)
GetCf(name, key) == DB_get_cf(cfs[name], key, 1, NoErr)

JustPut == lastw.call.kind = "put" /\ ret.op = "put"
JustDeleted == lastw.call.kind = "delete" /\ ret.op = "delete"

(* C1: round trip.  After a successful DB put(k, v), with no write since, *)
(* get(k) returns present with exactly the bytes v. *)
C1_RoundTrip ==
    JustPut =>
        \A r \in Get(lastw.call.key) :
            Returned(r) /\ BytesOf(r) = lastw.call.value

(* C1 fails on the first put of a fresh database: get can return a        *)
(* present value of length 0. *)
C1_Truncated ==
    /\ JustPut
    /\ lastw.before = None
    /\ \E r \in Get(lastw.call.key) :
           Returned(r) /\ BytesOf(r) = <<>> /\ lastw.call.value # <<>>

(* C2: delete.  After put(k, v) followed by a successful DB delete(k),    *)
(* with no write since, get(k) returns Ok(absent). *)
C2_Delete ==
    (JustDeleted /\ lastw.before # None) =>
        Get(lastw.call.key) = {Ok(None)}

C2_Witness ==
    /\ JustDeleted
    /\ lastw.before = Some(<<8, 9>>)
    /\ Get(lastw.call.key) = {Ok(None)}

(* A read result that shows exactly the optional value v. *)
Shows(r, v) ==
    /\ r.ok
    /\ IF v = None THEN r.val = None ELSE Returned(r) /\ BytesOf(r) = v[1]

(* C3: snapshot isolation.  While a snapshot is held, Snapshot::get,      *)
(* Snapshot::get_cf and an iterator made by Snapshot::iter show every     *)
(* key's value as of the moment the snapshot was taken, whatever was put  *)
(* since, and DB::get shows the later puts. *)
C3_SnapshotIsolation ==
    snap # None =>
        /\ \A k \in Keys :
               /\ \A r \in Snapshot_get(k, NoErr) :
                      Shows(r, snapExp[DEFAULT_COLUMN_FAMILY][k])
               /\ \A r \in Get(k) : Shows(r, expect[DEFAULT_COLUMN_FAMILY][k])
               /\ \A n \in CfNames :
                      \A r \in Snapshot_get_cf(cfs[n], k, NoErr) :
                          Shows(r, snapExp[n][k])
        /\ (iter # None /\ scan.src = "snapshot" /\ valid(iter[1])) =>
               LET e == kv(iter[1])[1]
               IN snapExp[DEFAULT_COLUMN_FAMILY][e[1]] = Some(e[2])

(* C3 fails for a key the snapshot holds and a later put changed: the     *)
(* read through the snapshot can return a present value of length 0. *)
C3_Truncated ==
    /\ snap # None
    /\ \E k \in Keys :
           /\ snapExp[DEFAULT_COLUMN_FAMILY][k] # None
           /\ expect[DEFAULT_COLUMN_FAMILY][k] #
                  snapExp[DEFAULT_COLUMN_FAMILY][k]
           /\ \E r \in Snapshot_get(k, NoErr) :
                  Returned(r) /\ BytesOf(r) = <<>>

(* The steps of a write batch: a call that queues an operation, and the  *)
(* commit by DB::write. *)
BatchOps == {"batch_put", "batch_merge", "batch_delete"}
Queued == batch # None /\ batch' # None /\ batch' # batch
Committed == batch # None /\ batch' = None /\ ret'.op = "write"

(* What every get on the DB can return, per column family and key. *)
Reads == [n \in CfNames |-> [k \in Keys |-> GetCf(n, k)]]

(* C4: batch commit.  A put, merge or delete on a WriteBatch changes      *)
(* nothing in the database and no get on it; a successful write(batch)    *)
(* leaves the database as all of the batch's operations applied in their  *)
(* insertion order, a failed one leaves it as it was. *)
C4_BatchStep ==
    /\ Queued => store' = store /\ Reads' = Reads
    /\ Committed =>
           IF ret'.res.ok
           THEN /\ store' = ApplyAll(store, bops)
                /\ \A k \in Keys : Get(k)' =
                       GetResults(ApplyAll(store, bops)[DEFAULT_COLUMN_FAMILY][k],
                                  NoErr)
           ELSE store' = store /\ Reads' = Reads

C4_BatchCommit == [][C4_BatchStep]_vars

(* A committed batch of three operations on one key of one column         *)
(* family whose order matters: the put is deleted, then merged anew. *)
C4_Witness ==
    /\ lastw.call.kind = "write"
    /\ Len(lastw.call.ops) = 3
    /\ \E n \in CfNames, k \in Keys :
           /\ \A i \in 1..3 : lastw.call.ops[i].cf = n /\ lastw.call.ops[i].key = k
           /\ lastw.call.ops[1].kind = "put"
           /\ lastw.call.ops[2].kind = "delete"
           /\ lastw.call.ops[3].kind = "merge"
           /\ store[n][k] = Some(lastw.call.ops[3].value)

(* C5: batch count.  After n put/put_cf/merge/merge_cf/delete/delete_cf   *)
(* calls on a new WriteBatch, each of which returned Ok, count() is n and *)
(* is_empty() is true exactly when n is 0. *)
C5_BatchCount ==
    /\ batch # None =>
           /\ WriteBatch_count(batch) = Len(bops)
           /\ WriteBatch_is_empty(batch) <=> Len(bops) = 0
    /\ ret.op \in BatchOps => ret.res = Ok(Unit)

C5_Witness ==
    /\ batch # None
    /\ Len(bops) = 3
    /\ WriteBatch_count(batch) = 3
    /\ ~WriteBatch_is_empty(batch)
    /\ ret.op = "batch_delete" /\ ret.res = Ok(Unit)

Increasing(keys) ==
    \A i \in 1..(Len(keys) - 1) : LexLess(keys[i], keys[i + 1])
Decreasing(keys) ==
    \A i \in 1..(Len(keys) - 1) : LexLess(keys[i + 1], keys[i])

(* The scan has seen every key of the contents, each once. *)
EachOnce(keys, contents) ==
    /\ {keys[i] : i \in 1..Len(keys)} = KeysIn(contents)
    /\ Len(keys) = Cardinality(KeysIn(contents))

ForwardScan == scan.start = "Start" /\ scan.dir \in {"none", "next"}
BackwardScan == scan.start = "End" /\ scan.dir \in {"none", "prev"}

(* C6: iterator order.  For any contents, the keys seen by seek(Start)    *)
(* and repeated next() are strictly increasing in byte order, those seen  *)
(* by seek(End) and repeated prev() strictly decreasing; when the scan    *)
(* has run to its end it has seen each stored key exactly once. *)
C6_IteratorOrder ==
    iter # None =>
        /\ ForwardScan =>
               /\ Increasing(scan.keys)
               /\ ~valid(iter[1]) => EachOnce(scan.keys, scan.exp)
        /\ BackwardScan =>
               /\ Decreasing(scan.keys)
               /\ ~valid(iter[1]) => EachOnce(scan.keys, scan.exp)

(* A forward scan run to its end over contents holding a key, a key it    *)
(* is a prefix of, and a third. *)
C6_Witness ==
    /\ iter # None /\ ForwardScan /\ scan.dir = "next"
    /\ ~valid(iter[1])
    /\ scan.keys = <<<<1>>, <<1, 2>>, <<2>>>>

(* A step of DB::put_cf or DB::delete_cf that returned Ok. *)
WroteCf == ret'.op \in {"put_cf", "delete_cf"} /\ lastw' # NoWrite

(* C7: column family isolation.  A put_cf or delete_cf on column family   *)
(* A leaves what get_cf(B, k) returns unchanged for every other column    *)
(* family B and every key k; a key that B does not hold by the writes     *)
(* made to B is absent from get_cf(B, k), and iter_cf(B) yields only what *)
(* the writes made to B left in it. *)
C7_Frame ==
    WroteCf =>
        \A B \in CfNames \ {lastw'.call.cf} :
            \A k \in Keys : GetCf(B, k)' = GetCf(B, k)

C7_Absent ==
    /\ \A B \in CfNames :
           \A k \in Keys : expect[B][k] = None => GetCf(B, k) = {Ok(None)}
    /\ (iter # None /\ scan.src \in Names /\ valid(iter[1])) =>
           LET e == kv(iter[1])[1]
           IN scan.exp[e[1]] = Some(e[2])

C7_CfIsolation == []C7_Absent /\ [][C7_Frame]_vars

(* Both column families were written under the same key bytes, the last   *)
(* write deleted it from cf1: the default column family still holds its   *)
(* own value, cf1 nothing. *)
C7_Witness ==
    /\ lastw.call.kind = "delete" /\ lastw.call.cf = "cf1"
    /\ ret.op = "delete_cf"
    /\ lastw.before = Some(<<7>>)
    /\ expect[DEFAULT_COLUMN_FAMILY][lastw.call.key] = Some(<<8, 9>>)
    /\ GetCf("cf1", lastw.call.key) = {Ok(None)}
    /\ \E r \in GetCf(DEFAULT_COLUMN_FAMILY, lastw.call.key) : Returned(r)

(* How often x occurs in seq. *)
Count(seq, x) == Cardinality({i \in 1..Len(seq) : seq[i] = x})

(* C8: default column family.  After a successful open_cf, and after any  *)
(* create_cf and drop_cf calls since, the CF map contains "default"; the  *)
(* engine was given "default" once: appended last with the database-level *)
(* options when the caller did not list it, as listed and not a second    *)
(* time when the caller did. *)
C8_DefaultCf ==
    /\ phase = "open" => DEFAULT_COLUMN_FAMILY \in DOMAIN cfs
    /\ (ret.op = "open_cf" /\ ret.res.ok) =>
           LET names == openCall[1].names
               cf_opts == openCall[1].cf_opts
           IN /\ Count(names, DEFAULT_COLUMN_FAMILY) = 1
              /\ IF Contains(ret.cfs, DEFAULT_COLUMN_FAMILY)
                 THEN names = ret.cfs /\ cf_opts = ret.cf_opts
                 ELSE /\ names = Append(ret.cfs, DEFAULT_COLUMN_FAMILY)
                      /\ cf_opts = Append(ret.cf_opts, DbOpts)

(* An open that did not list "default", then a successful drop_cf of      *)
(* "default": the map still holds the name. *)
C8_Witness ==
    /\ phase = "open"
    /\ openCall # None /\ openCall[1].names = <<"cf1", DEFAULT_COLUMN_FAMILY>>
    /\ ret.op = "drop_cf" /\ ret.name = DEFAULT_COLUMN_FAMILY /\ ret.res.ok
    /\ DEFAULT_COLUMN_FAMILY \in DOMAIN cfs

(* C9: drop ordering.  The drop of a DB calls the engine's CF-destroy     *)
(* routine for every handle of the CF map, then the engine's close on the *)
(* database handle: close is called once, and last. *)
C9_DropOrdering ==
    phase = "dropped" =>
        LET n == Len(relLog)
        IN /\ n = Cardinality(DOMAIN cfs) + 1
           /\ relLog[n] = CloseCall(inner)
           /\ \A i \in 1..(n - 1) :
                  relLog[i].call = "column_family_handle_destroy"
           /\ \A name \in DOMAIN cfs :
                  Count(relLog, DestroyCall(cfs[name])) >= 1
           /\ Count(relLog, CloseCall(inner)) = 1

C9_Witness ==
    /\ phase = "dropped"
    /\ Cardinality(DOMAIN cfs) = 2
    /\ Len(relLog) = 3
    /\ relLog[3] = CloseCall(inner)

(* C10: create_cf failure.  When create_cf returns an error the CF map   *)
(* is what it was before the call; when the engine reports no error the   *)
(* handle it returned is in the map under the name and is the result. *)
C10_CreateStep ==
    ret'.op = "create_cf" =>
        IF ret'.res.ok
        THEN cfs' = MapInsert(cfs, ret'.name, ret'.res.val)
        ELSE cfs' = cfs

C10_CreateCfFailure == [][C10_CreateStep]_vars

(* C10 fails: after create_cf("default", opts) returned the engine's      *)
(* error, the map holds the null pointer the engine handed back in place  *)
(* of the default column family's handle. *)
C10_Overwritten ==
    /\ ret.op = "create_cf" /\ ~ret.res.ok /\ ret.env # NoErr
    /\ ret.name = DEFAULT_COLUMN_FAMILY
    /\ cfs[DEFAULT_COLUMN_FAMILY] = Null

(* C11: drop_cf errors.  drop_cf of a name that is not in the CF map     *)
(* returns an error without a call of the engine's drop routine; when    *)
(* the name is known and the engine reports an error, drop_cf returns    *)
(* that error; in both cases the CF map is unchanged. *)
C11_DropStep ==
    ret'.op = "drop_cf" =>
        /\ ret'.name \notin DOMAIN cfs =>
               /\ ~ret'.res.ok
               /\ ~ret'.engine_called /\ store' = store
               /\ cfs' = cfs
        /\ (ret'.name \in DOMAIN cfs /\ ret'.env # NoErr) =>
               /\ ret'.engine_called
               /\ ret'.res = Err(error_message(ret'.env))
               /\ cfs' = cfs

C11_DropCfErrors == [][C11_DropStep]_vars

(* A column family created after the open: its name is in the map, the   *)
(* engine's drop routine was called and reported an error. *)
C11_Witness ==
    /\ ret.op = "drop_cf" /\ ~ret.res.ok
    /\ ret.name = "cf1" /\ ret.name \in DOMAIN cfs
    /\ ret.engine_called /\ ret.env # NoErr
    /\ openCall # None /\ ~Contains(openCall[1].names, "cf1")

(* A get call that reached the engine. *)
GotFromEngine == ret.op \in {"get", "get_cf"} /\ ret.called

(* C12: get outcome.  For get and get_cf the result is Err(message)       *)
(* whenever the engine set an error, whatever the value pointer is;      *)
(* Ok(absent) when there is no error and the value pointer is null; and  *)
(* Ok(present buffer of the returned length) when there is no error and  *)
(* the value pointer is not null. *)
C12_GetOutcome ==
    GotFromEngine =>
        IF ret.env # NoErr THEN ret.res = Err(error_message(ret.env))
        ELSE IF ret.val = None THEN ret.res = Ok(None)
        ELSE ret.res = Ok(Some(DBVector_from_c(ret.val[1], Len(ret.val[1]))))

(* C12 fails in its last case: no error, a value of one byte returned,   *)
(* and a present buffer of length 0 as the result. *)
C12_WrongLength ==
    /\ GotFromEngine
    /\ ret.env = NoErr /\ ret.val # None /\ Len(ret.val[1]) = 1
    /\ ret.res = Ok(Some(DBVector_from_c(ret.val[1], 0)))

(* C13: open argument check.  open_cf with a CF name list and a CF       *)
(* option list of different lengths returns an error, makes no call of   *)
(* the engine's open routine and produces no DB; the check comes after   *)
(* the path check and the directory creation, whose errors go first. *)
C13_OpenStep ==
    (ret'.op = "open_cf" /\ Len(ret'.cfs) # Len(ret'.cf_opts)) =>
        /\ ret'.res = Err(IF ~ret'.path_ok THEN PathMsg
                          ELSE IF ~ret'.dir_ok THEN DirMsg
                          ELSE LenMsg)
        /\ UNCHANGED <<openCall, store, handles, edbs, nextH>>
        /\ UNCHANGED <<phase, inner, cfs>>

C13_OpenArgumentCheck == [][C13_OpenStep]_vars

(* The caller listed "default" alone and gave no options: nothing was    *)
(* opened, nothing appended. *)
C13_Witness ==
    /\ ret.op = "open_cf" /\ ret.path_ok /\ ret.dir_ok
    /\ ret.cfs = <<DEFAULT_COLUMN_FAMILY>> /\ ret.cf_opts = <<>>
    /\ ret.res = Err(LenMsg)
    /\ phase = "closed" /\ openCall = None /\ edbs = {}

(* The calls that hand the engine an error out-pointer. *)
Fallible ==
    {"open_cf", "destroy", "repair", "write", "put", "put_cf", "merge",
     "merge_cf", "delete", "delete_cf", "get", "get_cf", "create_cf",
     "drop_cf", "flush", "delete_file_in_range", "delete_file_in_range_cf"}

(* What the engine wrote to the error out-pointer in the call r: nothing  *)
(* when a get stopped at the read options, before the engine call. *)
EngineSet(r) ==
    IF r.op \in {"get", "get_cf"} /\ ~r.called THEN NoErr ELSE r.env

(* C14: engine errors are never swallowed.  For every call of a fallible  *)
(* DB operation: when the engine set the error out-pointer the call       *)
(* returns Err with the engine's message, and it returns Ok only when the *)
(* engine set no error. *)
C14_ErrStep ==
    ret'.op \in Fallible =>
        /\ EngineSet(ret') # NoErr =>
               ~ret'.res.ok /\ ret'.res.msg = EngineSet(ret')
        /\ ret'.res.ok => EngineSet(ret') = NoErr

C14_ErrorsSurface == [][C14_ErrStep]_vars

(* The commit of a batch returned the engine's error; the batch is gone  *)
(* and the database holds nothing. *)
C14_Witness ==
    /\ ret.op = "write" /\ batch = None
    /\ \A name \in DOMAIN store : Present(store[name]) = {}
    /\ ret.env = "IO error"
    /\ ret.res = Err("IO error")

(* C15: iterator access guard.  key() and value() on an iterator that is *)
(* not valid (new, or moved or sought off the keys) fail the assertion    *)
(* and make no engine read; on a valid iterator they return the bytes of  *)
(* the entry it stands on, and the iterator stays where it is. *)
C15_AccessStep ==
    ret'.op \in {"key", "value"} =>
        /\ iter' = iter
        /\ IF iter[1].pos = None
           THEN ret'.res.panic /\ ~ret'.res.engine_read
           ELSE /\ ~ret'.res.panic
                /\ ret'.res.bytes =
                       IF ret'.op = "key" THEN iter[1].pos[1]
                       ELSE scan.exp[iter[1].pos[1]][1]

C15_AccessGuard == [][C15_AccessStep]_vars

(* key() failed its assertion on an iterator that next() moved past the   *)
(* last key. *)
C15_Witness ==
    /\ ret.op = "key" /\ ret.res.panic
    /\ iter # None /\ iter[1].pos = None
    /\ scan.dir = "next" /\ Len(scan.keys) >= 1

(* The calls that make an iterator, and those that move one. *)
MakesIterator(op) == op \in {"iter", "iter_cf", "snapshot_iter"}
MovesIterator(op) == op \in {"seek", "next", "prev"}

(* C16: iterator state machine.  A new iterator is not valid; seek, next  *)
(* and prev return the validity the iterator has after the move; next     *)
(* and prev on an iterator that is not valid leave it not valid, and an   *)
(* iterator that is not valid becomes valid by a seek only. *)
C16_IterStep ==
    /\ MakesIterator(ret'.op) => iter' # None /\ iter'[1].pos = None
    /\ MovesIterator(ret'.op) => ret'.res = (iter'[1].pos # None)
    /\ (ret'.op \in {"next", "prev"} /\ iter[1].pos = None) =>
           iter'[1].pos = None /\ ret'.res = FALSE
    /\ (iter # None /\ iter[1].pos = None /\ iter' # None
           /\ iter'[1].pos # None) => ret'.op = "seek"

C16_IterStateMachine == [][C16_IterStep]_vars

(* An iterator over one key that was moved both ways after its seek: the  *)
(* first move took it off the key, the later ones found it not valid, and *)
(* the last, a prev, returned false. *)
C16_Witness ==
    /\ iter # None /\ iter[1].pos = None
    /\ Cardinality(KeysIn(iter[1].view)) = 1
    /\ scan.start = "Start" /\ scan.dir = "mixed"
    /\ ret.op = "prev" /\ ret.res = FALSE

(* Key k of the key set S is where a seek with the given SeekKey has to  *)
(* land. *)
IsFirst(k, S) == k \in S /\ \A j \in S : LexLeq(k, j)
IsLast(k, S) == k \in S /\ \A j \in S : LexLeq(j, k)
Target(k, key, S) ==
    CASE key.tag = "Start" -> IsFirst(k, S)
      [] key.tag = "End" -> IsLast(k, S)
      [] key.tag = "Key" -> IsFirst(k, {j \in S : LexLeq(key.key, j)})

(* C17: seek positioning.  On every key set, seek(Start) lands on the     *)
(* smallest stored key, seek(End) on the largest, seek(Key(k)) on the     *)
(* smallest stored key that is >= k; it returns true exactly when there   *)
(* is such a key. *)
C17_SeekStep ==
    ret'.op = "seek" =>
        LET S == KeysIn(scan'.exp)
            pos == iter'[1].pos
        IN /\ ret'.res = (\E k \in S : Target(k, ret'.key, S))
           /\ ret'.res => pos # None /\ Target(pos[1], ret'.key, S)
           /\ ~ret'.res => pos = None

C17_SeekPositioning == [][C17_SeekStep]_vars

(* seek(Key(<<1, 2>>)) on the keys <<1>> and <<2>> landed on <<2>>: the   *)
(* key sought is not stored and is longer than the one it lands on. *)
C17_Witness ==
    /\ ret.op = "seek" /\ ret.res
    /\ ret.key = SeekKeyOf(<<1, 2>>)
    /\ KeysIn(scan.exp) = {<<1>>, <<2>>}
    /\ iter[1].pos = Some(<<2>>)

(* The keys of the pairs pulled since the seek. *)
PulledKeys == [i \in 1..Len(scan.pulled) |-> scan.pulled[i][1]]

(* One pull: on a valid iterator the pair of the entry it stands on, the  *)
(* one kv() returns, and a move to the next stored key; otherwise absent   *)
(* and no move. *)
C18_PullStep ==
    ret'.op = "pull" =>
        LET S == KeysIn(scan.exp)
            pos == iter[1].pos
        IN IF pos # None
           THEN /\ ret'.res = Some(<<pos[1], scan.exp[pos[1]][1]>>)
                /\ ret'.res = kv(iter[1])
                /\ LET after == {j \in S : LexLess(pos[1], j)}
                   IN IF after = {} THEN iter'[1].pos = None
                      ELSE /\ iter'[1].pos # None
                           /\ IsFirst(iter'[1].pos[1], after)
           ELSE ret'.res = None /\ iter' = iter

(* Pulls after seek(Start): the pairs come in ascending key order, each   *)
(* a pair of the database, and when a pull returned absent every key has  *)
(* been pulled. *)
C18_PullScan ==
    (scan.start = "Start" /\ scan.dir = "pull") =>
        /\ Increasing(PulledKeys)
        /\ \A i \in 1..Len(scan.pulled) :
               scan.exp[scan.pulled[i][1]] = Some(scan.pulled[i][2])
        /\ (ret.op = "pull" /\ ret.res = None) =>
               {PulledKeys[i] : i \in 1..Len(scan.pulled)} = KeysIn(scan.exp)

(* C18: pull-style iteration.  Each pull on a valid iterator returns the  *)
(* pair kv() returns and advances the iterator by one step; a pull on an  *)
(* iterator that is not valid returns absent and moves nothing; after     *)
(* seek(Start) on n keys the pulls yield the n pairs in ascending key     *)
(* order and then absent. *)
C18_PullIteration == []C18_PullScan /\ [][C18_PullStep]_vars

(* Three keys pulled after seek(Start), then a pull that returned absent. *)
C18_Witness ==
    /\ scan.start = "Start" /\ scan.dir = "pull"
    /\ PulledKeys = <<(<<1>>), (<<1, 2>>), (<<2>>)>>
    /\ ret.op = "pull" /\ ret.res = None

(* a <= b in the order of byte slices: a is a prefix of b, or a has the   *)
(* smaller byte at the first place where the two differ. *)
BytesLeq(a, b) ==
    \/ /\ Len(a) <= Len(b)
       /\ \A i \in 1..Len(a) : a[i] = b[i]
    \/ \E i \in 1..Len(a) :
          /\ i <= Len(b)
          /\ a[i] < b[i]
          /\ \A j \in 1..(i - 1) : a[j] = b[j]

(* C19: Range validity.  Range::new(a, b) yields a Range exactly when     *)
(* a <= b in byte order, a = b included; otherwise the assertion fails    *)
(* and no Range exists: every Range has start_key <= end_key. *)
C19_RangeValidity ==
    ret.op = "range_new" =>
        /\ ~ret.res.panic <=> BytesLeq(ret.start_key, ret.end_key)
        /\ ~ret.res.panic =>
               /\ ret.res.start_key = ret.start_key
               /\ ret.res.end_key = ret.end_key
               /\ BytesLeq(ret.res.start_key, ret.res.end_key)

(* Range::new(k, k) made a Range of an empty span. *)
C19_Witness ==
    /\ ret.op = "range_new"
    /\ ret.start_key = <<1, 2>> /\ ret.end_key = <<1, 2>>
    /\ ~ret.res.panic

(* C20: a CF handle is a borrow.  No put_cf call hands the engine a CF    *)
(* handle that was taken from a DB that has been dropped since. *)
C20_PutStep ==
    \A x \in held, key \in BatchKeys, value \in Values, err \in EngineErrs :
        DB_put_cf_held(x, key, value, err) => x.db \in edbs

C20_HandleIsBorrow == [][C20_PutStep]_vars

(* C20 fails: the caller holds a handle of a DB that was dropped, a second *)
(* DB is open, and put_cf on it with that handle returned Ok: the call    *)
(* wrote what no write of the caller accounts for. *)
C20_UseAfterDrop ==
    /\ IsOpen /\ \E x \in held : x.db \notin edbs /\ ~Refers(x.handle)
    /\ ret.op = "put_cf" /\ ret.res.ok /\ lastw = NoWrite
    /\ \E k \in Keys : /\ store[DEFAULT_COLUMN_FAMILY][k] # None
                        /\ expect[DEFAULT_COLUMN_FAMILY][k] = None

----------------------------------------------------------------------------
(* C21: get_property_int returns Some(n) exactly when get_property_value  *)
(* returns Some(s) for the same property and s is the decimal form of an  *)
(* unsigned integer of the u64 range with value n; it returns None when   *)
(* the property does not exist and when s is no such decimal form.  The   *)
(* decimal form is stated on its own here: an optional plus sign, digits  *)
(* only, at least one, their positional value within the range. *)
IsDecimal(s) ==
    LET d == IF Len(s) > 0 /\ s[1] = 43 THEN Tail(s) ELSE s
    IN Len(d) > 0 /\ \A i \in 1..Len(d) : d[i] \in 48..57

RECURSIVE Pow10(_)
Pow10(e) == IF e = 0 THEN 1 ELSE 10 * Pow10(e - 1)

RECURSIVE DecimalSum(_, _)
DecimalSum(d, i) ==
    IF i > Len(d) THEN 0
    ELSE (d[i] - 48) * Pow10(Len(d) - i) + DecimalSum(d, i + 1)

DecimalValue(s) == DecimalSum(IF s[1] = 43 THEN Tail(s) ELSE s, 1)

ParsesAs(s, n) == IsDecimal(s) /\ DecimalValue(s) = n /\ n <= U64_MAX

C21_PropertyInt ==
    (ret.op = "get_property_int" /\ ~ret.res.panic) =>
        /\ ~ret.str.panic
        /\ \A n \in 0..U64_MAX :
              ret.res.val = Some(n) <=>
                  ret.str.val # None /\ ParsesAs(ret.str.val[1], n)
        /\ ret.res.val = None <=>
              \/ ret.str.val = None
              \/ ~\E n \in 0..U64_MAX : ParsesAs(ret.str.val[1], n)
        /\ ret.res.val # None => ret.res.val[1] \in 0..U64_MAX

(* A property whose string overflows is absent as an integer, next to one *)
(* that parses: both were asked. *)
C21_Witness ==
    /\ ret.op = "get_property_int" /\ ~ret.res.panic
    /\ ret.str.val = Some(<<43, 57, 57>>)
    /\ ret.res.val = Some(DecimalValue(<<43, 57, 57>>))

C21_WitnessAbsent ==
    /\ ret.op = "get_property_int" /\ ~ret.res.panic
    /\ ret.str.val # None /\ ~IsDecimal(ret.str.val[1])
    /\ ret.res.val = None

----------------------------------------------------------------------------
(* C22: cf_names.  While the DB is open, cf_names() lists every name of   *)
(* the CF map exactly once, ascending in byte order; the list holds       *)
(* "default", every name passed to open_cf and every name for which       *)
(* create_cf succeeded (a name once listed stays listed while the DB is   *)
(* open); cf_handle(name) is Some exactly for the names of the list. *)
C22_Listing ==
    phase = "open" =>
        /\ Len(cf_names) = Cardinality(DOMAIN cfs)
        /\ \A n \in DOMAIN cfs : Count(cf_names, n) = 1
        /\ \A i, j \in 1..Len(cf_names) :
               i < j => /\ LexLess(NameBytes(cf_names[i]),
                                   NameBytes(cf_names[j]))
                        /\ cf_names[i] # cf_names[j]
        /\ Contains(cf_names, DEFAULT_COLUMN_FAMILY)
        /\ (openCall # None /\ ret.op = "open_cf") =>
               \A i \in 1..Len(ret.cfs) : Contains(cf_names, ret.cfs[i])
        /\ \A n \in Names : cf_handle(n) # None <=> Contains(cf_names, n)

C22_NamesStep ==
    /\ (ret'.op = "create_cf" /\ ret'.res.ok) =>
           Contains(cf_names', ret'.name)
    /\ (phase = "open" /\ phase' = "open") =>
           \A n \in Names : Contains(cf_names, n) => Contains(cf_names', n)

C22_CfNames == []C22_Listing /\ [][C22_NamesStep]_vars

(* A DB opened with "default" alone, then create_cf("cf1") succeeded: the *)
(* list is cf1, default. *)
C22_Witness ==
    /\ phase = "open"
    /\ openCall # None /\ openCall[1].names = <<DEFAULT_COLUMN_FAMILY>>
    /\ ret.op = "create_cf" /\ ret.res.ok /\ ret.name = "cf1"
    /\ cf_names = <<"cf1", DEFAULT_COLUMN_FAMILY>>
    /\ cf_handle("cf1") = Some(ret.res.val)

----------------------------------------------------------------------------
(* C23: approximate sizes.  A size query with m ranges returns m sizes,   *)
(* the i-th for the i-th range [start, end) in the column family asked:   *)
(* 0 when no flushed key of that column family lies in the range          *)
(* (whatever the write buffer holds there), above 0 when one does. *)
FlushedIn(name, range) ==
    {k \in Keys : /\ disk[name][k] # None
                  /\ LexLeq(range.start_key, k) /\ LexLess(k, range.end_key)}

UnflushedIn(name, range) ==
    {k \in Keys : /\ store[name][k] # None /\ disk[name][k] = None
                  /\ LexLeq(range.start_key, k) /\ LexLess(k, range.end_key)}

IsSizeQuery ==
    ret.op \in {"get_approximate_sizes", "get_approximate_sizes_cf"}

SizesRight ==
    /\ Len(ret.res) = Len(ret.ranges)
    /\ \A i \in 1..Len(ret.ranges) :
          /\ FlushedIn(ret.name, ret.ranges[i]) = {} => ret.res[i] = 0
          /\ FlushedIn(ret.name, ret.ranges[i]) # {} => ret.res[i] > 0

(* The step of a size query: the files are as they were when it was made  *)
(* (a flush of the engine's own can follow it). *)
C23_SizeStep == (IsSizeQuery' /\ UNCHANGED disk) => SizesRight'

C23_ApproximateSizes == [][C23_SizeStep]_vars

(* Two ranges asked of "cf1": the first holds a key that was written and  *)
(* not flushed, the second a flushed key that the first does not hold. *)
C23_Witness ==
    /\ ret.op = "get_approximate_sizes_cf" /\ ret.name = "cf1"
    /\ SizesRight
    /\ Len(ret.ranges) = 2
    /\ UnflushedIn("cf1", ret.ranges[1]) # {}
    /\ FlushedIn("cf1", ret.ranges[1]) = {}
    /\ FlushedIn("cf1", ret.ranges[2]) # {}
    /\ ret.res[1] = 0 /\ ret.res[2] > 0

----------------------------------------------------------------------------
(* C24: destroy under lock.  DB::destroy on the path of a DB that is      *)
(* still alive returns the engine's lock error and leaves what the        *)
(* database holds as it is; destroy returns Ok only when the DB has been  *)
(* dropped (or none was opened). *)
C24_DestroyStep ==
    ret'.op = "destroy" =>
        /\ phase = "open" =>
               /\ ret'.res = Err(LockErr)
               /\ store' = store /\ disk' = disk
               /\ phase' = "open"
        /\ ret'.res.ok => phase # "open" /\ edbs = {}

C24_DestroyUnderLock == [][C24_DestroyStep]_vars

(* destroy was refused while the DB holds a key. *)
C24_Witness ==
    /\ ret.op = "destroy" /\ phase = "open"
    /\ ret.res = Err(LockErr)
    /\ DefaultLive
    /\ \E k \in Keys : store[DEFAULT_COLUMN_FAMILY][k] # None

(* destroy went through after the drop of the DB. *)
C24_WitnessDropped ==
    /\ ret.op = "destroy" /\ phase = "dropped" /\ ret.res.ok
    /\ store = <<>>

----------------------------------------------------------------------------
(* C25: concurrent use of one DB.  In every interleaving of put, delete,  *)
(* get and write(batch) calls of several threads, each call takes effect  *)
(* at one point between its start and its return; a get returns the       *)
(* value of the latest write to its key before that point; no get and no  *)
(* snapshot of another thread sees a batch half applied: what they see is *)
(* what the calls that took effect, each as a whole, add up to. *)
InFlight(t) == calls[t].st \in {"called", "ran"}

GetIsLatest(c) ==
    c.res.ok =>
        LET latest == c.at[c.call.cf][c.call.key]
        IN IF latest = None THEN c.res.val = None
           ELSE /\ c.res.val # None
                /\ DBVector_deref(c.res.val[1]) = latest[1]

C25_Linearizable ==
    /\ store = expect
    /\ \A t \in Threads :
          calls[t].st = "ran" =>
              /\ calls[t].call.kind = "get" => GetIsLatest(calls[t])
              /\ calls[t].call.kind = "snapshot" =>
                     calls[t].res.val = calls[t].at

(* C25 fails: while another thread has a call in flight, a get that ran   *)
(* after a put to its key took effect comes back with the value's buffer  *)
(* and length 0. *)
C25_Truncated ==
    \E t, u \in Threads :
        /\ t # u /\ InFlight(u)
        /\ calls[t].st = "ran" /\ calls[t].call.kind = "get"
        /\ calls[t].res.ok /\ calls[t].res.val # None
        /\ calls[t].at[DEFAULT_COLUMN_FAMILY][calls[t].call.key] # None
        /\ calls[t].res.val[1].len = 0

(* The same statement on the buffer the engine returned in place of the   *)
(* bytes seen through the length. *)
C25_BufferLinearizable ==
    /\ store = expect
    /\ \A t \in Threads :
          calls[t].st = "ran" =>
              /\ (calls[t].call.kind = "get" /\ calls[t].res.ok) =>
                     LET latest ==
                             calls[t].at[calls[t].call.cf][calls[t].call.key]
                     IN IF latest = None THEN calls[t].res.val = None
                        ELSE /\ calls[t].res.val # None
                             /\ calls[t].res.val[1].base = latest[1]
              /\ calls[t].call.kind = "snapshot" =>
                     calls[t].res.val = calls[t].at

(* A get ran between the call and the return of a batch commit of         *)
(* another thread that had taken effect. *)
C25_Overlap ==
    \E t, u \in Threads :
        /\ calls[u].st = "ran" /\ calls[u].call.kind = "write"
        /\ calls[u].res.ok
        /\ calls[t].st = "ran" /\ calls[t].call.kind = "get"
        /\ calls[t].at = expect

----------------------------------------------------------------------------
(* C26: no native leak and no double release.  Once every binding object  *)
(* is dropped (no DB is alive), every database handle and every CF handle *)
(* the engine returned has been released, each once, and no null pointer  *)
(* went to a release routine. *)
Released == {relLog[i].handle : i \in 1..Len(relLog)}

C26_NoLeakNoDoubleRelease ==
    phase # "open" =>
        /\ edbs = {}
        /\ DOMAIN handles = {}
        /\ Null \notin Released
        /\ \A i, j \in 1..Len(relLog) :
               relLog[i].handle = relLog[j].handle => i = j

(* C26 fails: the DB was dropped after create_cf overwrote a handle of    *)
(* the CF map: the engine still holds the handle that was in the map      *)
(* before, and the null pointer the failed create_cf put in its place     *)
(* went to rocksdb_column_family_handle_destroy. *)
C26_LeakedAndNullReleased ==
    /\ phase = "dropped"
    /\ edbs = {}
    /\ DOMAIN handles # {}
    /\ DestroyCall(Null) \in {relLog[i] : i \in 1..Len(relLog)}

----------------------------------------------------------------------------
(* C27: non-null handle invariant.  open_cf returns Ok only when the      *)
(* engine reported no error and handed back a database handle and CF      *)
(* handles that are not null; while a DB is alive, whatever create_cf and *)
(* drop_cf calls were made on it, its database handle and every handle of *)
(* its CF map are not null. *)
C27_NonNullHandles ==
    /\ (ret.op = "open_cf" /\ ret.res.ok) =>
           /\ ret.env = NoErr
           /\ ret.res.val # Null
    /\ phase = "open" =>
           /\ inner # Null
           /\ \A name \in DOMAIN cfs : cfs[name] # Null

(* C27 fails: a live DB whose CF map holds the null pointer under "cf1",  *)
(* put there by a create_cf that returned the engine's error. *)
C27_NullInMap ==
    /\ phase = "open" /\ inner # Null
    /\ ret.op = "create_cf" /\ ~ret.res.ok /\ ret.name = "cf1"
    /\ cf_handle("cf1") = Some(Null)

(* The first half alone, on the open calls. *)
C27_OpenNonNull ==
    (ret.op = "open_cf" /\ ret.res.ok) =>
        /\ ret.env = NoErr /\ ret.res.val # Null /\ inner = ret.res.val
        /\ \A name \in DOMAIN cfs : cfs[name] # Null

----------------------------------------------------------------------------
(* C28: iterators and snapshots precede the database close.  A live       *)
(* iterator or snapshot refers to the DB that made it, and that DB's      *)
(* engine handle is open; an iterator goes away only by its drop, a       *)
(* snapshot only by its drop, which makes one release call, on the DB     *)
(* that made the snapshot; while either lives the DB is not dropped. *)
IterBorrows == {b \in borrows : b.kind = "iter"}
SnapBorrows == {b \in borrows : b.kind = "snapshot"}

C28_Referred ==
    /\ \A b \in borrows : phase = "open" /\ b.db = inner /\ b.db \in edbs
    /\ iter # None <=> IterBorrows # {}
    /\ snap # None <=> SnapBorrows # {}
    /\ Cardinality(IterBorrows) <= 1 /\ Cardinality(SnapBorrows) <= 1

C28_OwnStep ==
    /\ (iter # None /\ iter' = None) => ret'.op = "iter_drop"
    /\ (snap # None /\ snap' = None) =>
           /\ ret'.op = "snapshot_drop"
           /\ ret'.released = {[call |-> "release_snapshot", db |-> inner]}
           /\ inner \in edbs
    /\ (iter # None \/ snap # None) =>
           /\ inner' = inner /\ phase' = "open" /\ inner \in edbs'
    /\ ret'.op = "iter_drop" => iter # None /\ iter' = None
    /\ ret'.op = "snapshot_drop" => snap # None /\ snap' = None

C28_DropsPrecedeClose == []C28_Referred /\ [][C28_OwnStep]_vars

(* The second DB: a snapshot and an iterator made from the snapshot live  *)
(* on it, after the first DB was dropped. *)
C28_Witness ==
    /\ phase = "open" /\ inner # 1
    /\ snap # None /\ iter # None /\ scan.src = "snapshot"
    /\ borrows = {[kind |-> "iter", db |-> inner],
                  [kind |-> "snapshot", db |-> inner]}

----------------------------------------------------------------------------
(* C29: a batch is single-use.  A write, write_opt or write_without_wal   *)
(* leaves no batch behind, whether the engine commits it or reports an    *)
(* error; the store changes only when it commits; only a live batch takes *)
(* an operation or is committed; and a batch goes away only by a write    *)
(* or by its drop, each of which destroys it. *)
C29_BatchStep ==
    /\ ret'.op = "write" =>
           /\ batch # None /\ batch' = None
           /\ store' = IF ret'.res.ok THEN EngineApplyAll(store, batch[1])
                       ELSE store
    /\ ret'.op \in BatchOps => batch # None /\ batch' # None
    /\ ret'.op = "batch_drop" => batch # None /\ batch' = None
    /\ (batch # None /\ batch' = None) => ret'.op \in {"write", "batch_drop"}
    /\ (batch = None /\ batch' # None) =>
           ret'.op = "batch_new" /\ batch' = Some(<<>>)

C29_BatchSingleUse == [][C29_BatchStep]_vars

(* A write of a batch of two operations that the engine refused: the      *)
(* batch is gone and nothing was stored. *)
C29_Witness ==
    /\ ret.op = "write" /\ ~ret.res.ok
    /\ batch = None /\ nwrites = 2
    /\ store = [n \in Names |-> EmptyCF]

(* A committed batch of two operations. *)
C29_WitnessCommitted ==
    /\ ret.op = "write" /\ ret.res.ok
    /\ batch = None /\ nwrites = 2
    /\ store # [n \in Names |-> EmptyCF]

----------------------------------------------------------------------------
(* C30: a flush(sync) that returned has created one flush-options handle, *)
(* set its wait flag to sync, called the engine flush once and destroyed  *)
(* the handle once, in that order, whether the engine reported an error   *)
(* or not; it tested the error out-pointer after the destroy, and its     *)
(* result is Err, with the engine's message, exactly when the pointer was *)
(* not null. *)
CallsOf(made, fn) == {i \in 1..Len(made) : made[i].fn = fn}
OnlyCall(made, fn) == CHOOSE i \in CallsOf(made, fn) : TRUE

C30_FlushOptionsReleased ==
    ret.op = "flush" =>
        LET made == ret.ffi
            create == "rocksdb_flushoptions_create"
            set_wait == "rocksdb_flushoptions_set_wait"
            engine == "rocksdb_flush"
            destroy_opts == "rocksdb_flushoptions_destroy"
            test == "err.is_null"
        IN  /\ \A fn \in {create, set_wait, engine, destroy_opts, test} :
                   Cardinality(CallsOf(made, fn)) = 1
            /\ OnlyCall(made, create) < OnlyCall(made, set_wait)
            /\ OnlyCall(made, set_wait) < OnlyCall(made, engine)
            /\ OnlyCall(made, engine) < OnlyCall(made, destroy_opts)
            /\ OnlyCall(made, destroy_opts) < OnlyCall(made, test)
            /\ made[OnlyCall(made, set_wait)].wait = ret.sync
            /\ \A fn \in {set_wait, engine, destroy_opts} :
                   made[OnlyCall(made, fn)].opts
                       = made[OnlyCall(made, create)].opts
            /\ ret.res.ok <=> ret.env = NoErr
            /\ ~ret.res.ok => ret.res.msg = error_message(ret.env)

(* A waiting flush that the engine refused. *)
C30_Witness ==
    /\ ret.op = "flush" /\ ret.sync /\ ~ret.res.ok
    /\ Len(ret.ffi) = 5

(* A flush that succeeded without waiting. *)
C30_WitnessOk == ret.op = "flush" /\ ~ret.sync /\ ret.res.ok

----------------------------------------------------------------------------
(* C31: drop_cf removes the name.  After a drop_cf(name) that returned    *)
(* Ok, cf_handle(name) is absent and cf_names does not list the name; a   *)
(* drop_cf(name) that follows it returns the unknown-column-family error  *)
(* without a call of the engine; and when the DB is dropped next, the     *)
(* handle of the dropped column family is not destroyed twice. *)
DroppedOk == ret.op = "drop_cf" /\ ret.res.ok

C31_Removed ==
    DroppedOk =>
        /\ cf_handle(ret.name) = None
        /\ \A i \in 1..Len(cf_names) : cf_names[i] # ret.name

C31_SecondDrop ==
    (DroppedOk /\ ret'.op = "drop_cf" /\ ret'.name = ret.name) =>
        ret' = DropRet(ret.name, FALSE, NoErr, Err(InvalidCfMsg(ret.name)))

C31_DestroyedOnce ==
    (DroppedOk /\ ret'.op = "drop" /\ ret.name \in DOMAIN cfs) =>
        Cardinality({i \in 1..Len(relLog') :
                        relLog'[i] = DestroyCall(cfs[ret.name])}) <= 1

C31_DropCfRemovesName ==
    []C31_Removed /\ [][C31_SecondDrop /\ C31_DestroyedOnce]_vars

(* C31 fails: drop_cf("cf1") returned Ok, the engine holds no such column *)
(* family any more, and the CF map still gives a handle for the name and  *)
(* lists it. *)
C31_StillListed ==
    /\ phase = "open"
    /\ DroppedOk /\ ret.name = "cf1" /\ ret.engine_called
    /\ "cf1" \notin DOMAIN store
    /\ cf_handle("cf1") # None
    /\ \E i \in 1..Len(cf_names) : cf_names[i] = "cf1"

(* What the second drop_cf of the name does: the name is still in the CF  *)
(* map, so the engine is called, and the call returns the engine's error. *)
C31_SecondDropReachesEngine ==
    [][(DroppedOk /\ ret'.op = "drop_cf" /\ ret'.name = ret.name) =>
           /\ ret'.engine_called /\ ~ret'.res.ok
           /\ ret'.env # NoErr /\ ret'.res.msg = error_message(ret'.env)]_vars

(* The last part alone: the drop of the DB destroys the handle once. *)
C31_NoSecondDestroy == [][C31_DestroyedOnce]_vars

----------------------------------------------------------------------------
(* C32: direct writes and batched writes agree.  When a sequence of put,  *)
(* put_cf, delete and delete_cf calls was made call by call on one        *)
(* database and the same calls were queued on a WriteBatch that write or  *)
(* write_without_wal then commits to a database opened alike, the second  *)
(* database holds what the first held, and get and get_cf can return on   *)
(* it, for every key of every column family, what they could on the first. *)
SameCalls == direct.seen # None /\ direct.made = Len(bops)

C32_AgreeStep ==
    (SameCalls /\ Committed /\ ret'.res.ok) =>
        /\ store' = direct.seen[1]
        /\ \A n \in CfNames, k \in Keys :
               GetCf(n, k)' =
                   GetResults(direct.seen[1][handles[cfs[n]]][k], NoErr)

C32_DirectAndBatchAgree == [][C32_AgreeStep]_vars

(* Three calls whose order and column family matter, made both ways: a    *)
(* put_cf and a delete_cf of one key of cf1, and a put of the same key.   *)
(* Both databases end with the key absent from cf1 and present in the     *)
(* default column family. *)
C32_Witness ==
    /\ ret.op = "write" /\ ret.res.ok
    /\ direct.seen # None /\ direct.made = 3
    /\ lastw.call.kind = "write" /\ Len(lastw.call.ops) = 3
    /\ \E k \in WriteKeys :
           /\ lastw.call.ops[1] = Op("put", "cf1", k, <<7>>)
           /\ lastw.call.ops[2] = Op("delete", "cf1", k, <<>>)
           /\ lastw.call.ops[3] = Op("put", DEFAULT_COLUMN_FAMILY, k, <<8, 9>>)
           /\ store["cf1"][k] = None
           /\ store[DEFAULT_COLUMN_FAMILY][k] = Some(<<8, 9>>)
    /\ store = direct.seen[1]

====
